---- MODULE Spec2Model ----
(***************************************************************************)
(* Model of Assignment_1/Problem_1/taxi_routing.py: TaxiRouter, the joint  *)
(* best-first search that schedules several taxis over edges of capacity   *)
(* two.                                                                    *)
(*                                                                         *)
(* Representation of numbers.  The program computes with floats.  Every    *)
(* time it produces is  km * (60 / speed_kmh) + k * wait_penalty ; with    *)
(* integer km, integer wait_penalty (minutes) and speed_kmh in {40, 60,    *)
(* 120} all of them are multiples of 0.5 and are exact in binary floating  *)
(* point.  The model stores every time as the integer number of            *)
(* HALF-MINUTES (30.0 minutes is 60, 1.5 minutes is 3).  wait_penalty and  *)
(* speed_kmh keep the units of the program's inputs (minutes, km/h).       *)
(* math.inf is the value Inf, which absorbs addition (Plus).               *)
(* Taxi indices are 1-based in the sequences of the model; the "taxi"      *)
(* field of a schedule entry keeps the program's 0-based index.            *)
(*                                                                         *)
(* The module also models the Wordle game engine (WordleGame, GameState,   *)
(* Feedback, Validator, WordList) and the CSPSolver.  Each of the three    *)
(* programs has its own specification (Spec, SpecGame, SpecSolver); the    *)
(* variables of the other two programs are idle in it.  SpecSearch and     *)
(* SpecLive are Spec with fewer inputs and with weak fairness.             *)
(***************************************************************************)
EXTENDS Integers, Sequences, FiniteSets, TLC

VARIABLES
    num_nodes,      \* self.num_nodes
    edges,          \* self.edges: sequence of <<a, b, km>>
    trips,          \* self.trips: sequence of <<origin, dest>>
    wait_penalty,   \* self.wait_penalty, minutes
    speed_kmh,      \* self.speed_kmh
    graph,          \* self.graph: node -> sequence of <<neighbour, km>>
    all_times,      \* self.all_times: node -> node -> half-minutes or Inf
    open_heap,      \* solve's open_heap: set of frontier tuples
    counter,        \* solve's insertion counter
    seen,           \* solve's seen: canonical key -> best g
    solution,       \* solve's solution: None or (g, taxi_states, schedule)
    discards,       \* number of popped nodes solve has discarded (line 150)
    capped,         \* some conflict-resolution loop has left by attempts > 200
    pc,             \* position of solve: "init", "loop", "returned", "raised"
    \* version_2/src/core/game_engine.py: a WordleGame
    max_attempts,   \* WordleGame.max_attempts
    current_game,   \* WordleGame.current_game: NoGame or a GameState
    game_arg,       \* the argument of the last call of WordleGame.make_guess
    game_ret,       \* what the last call of WordleGame.make_guess returned
    \* version_2/src/solvers/csp/csp_solver.py: a CSPSolver
    possible_words,     \* BaseSolver.possible_words
    guess_history,      \* BaseSolver.guess_history
    feedback_history,   \* BaseSolver.feedback_history
    constraints,        \* CSPSolver.constraints: the list of a ConstraintSet
    solver_call         \* the last call made on the solver

taxi_vars == <<num_nodes, edges, trips, wait_penalty, speed_kmh, graph, all_times,
               open_heap, counter, seen, solution, discards, capped, pc>>

game_vars == <<max_attempts, current_game, game_arg, game_ret>>

solver_vars == <<possible_words, guess_history, feedback_history, constraints,
                 solver_call>>

vars == <<taxi_vars, game_vars, solver_vars>>

instance == <<num_nodes, edges, trips, wait_penalty, speed_kmh, graph, all_times>>

\* math.inf
Inf == 1000000

\* solution = None: the record of a solution with its "found" flag unset
None == [found |-> FALSE, g |-> 0, taxi_states |-> <<>>, schedule |-> <<>>]

\* the retry cap of the conflict-resolution loop (attempts > 200)
MaxAttempts == 200

(***************************************************************************)
(* Bounds of the model.                                                    *)
(***************************************************************************)
\* edge lengths of the enumerated graphs are 1..MaxKm kilometres
MaxKm == 2
\* solve's loop is followed while counter <= MaxCounter
MaxCounter == 32
\* the enumerated trip lists have up to MaxTaxis taxis
MaxTaxis == 3

----------------------------------------------------------------------------
(***************************************************************************)
(* Float helpers                                                           *)
(***************************************************************************)

\* float addition with math.inf
Plus(a, b) == IF a = Inf \/ b = Inf THEN Inf ELSE a + b

\* float multiplication of a (possibly infinite) distance by a positive rate
Times(a, b) == IF a = Inf THEN Inf ELSE a * b

\* int(round(t)) of a time t given in half-minutes: Python rounds halves to even
PyRound(t) ==
    LET q == t \div 2
    IN  IF t % 2 = 0 THEN q
        ELSE IF q % 2 = 0 THEN q ELSE q + 1

\* self.minutes_per_km = 60.0 / speed_kmh, in half-minutes per km
minutes_per_km(speed) == 120 \div speed

----------------------------------------------------------------------------
(***************************************************************************)
(* Construction: _build_graph, _single_source_times,                       *)
(* _compute_all_shortest_times                                             *)
(***************************************************************************)

\* mutant: an edge is entered in the list of its first node only
RECURSIVE build_graph_from_one_way(_, _, _)
build_graph_from_one_way(es, i, g) ==
    IF i > Len(es) THEN g
    ELSE build_graph_from_one_way(
             es, i + 1, [g EXCEPT ![es[i][1]] = Append(@, <<es[i][2], es[i][3]>>)])

RECURSIVE build_graph_from(_, _, _)
build_graph_from(es, i, g) ==
    IF i > Len(es) THEN g
    ELSE LET a  == es[i][1]
             b  == es[i][2]
             km == es[i][3]
             g1 == [g EXCEPT ![a] = Append(@, <<b, km>>)]
             g2 == [g1 EXCEPT ![b] = Append(@, <<a, km>>)]
         IN  build_graph_from(es, i + 1, g2)

build_graph(n, es) == build_graph_from(es, 1, [v \in 1..n |-> <<>>])

\* self.graph[node] of the defaultdict: a node without edges has the empty list
GraphAt(g, node) == IF node \in DOMAIN g THEN g[node] ELSE <<>>

\* the smallest (d, node) tuple of Dijkstra's heap
HeapMinPair(heap) ==
    CHOOSE p \in heap :
        \A q \in heap : p[1] < q[1] \/ (p[1] = q[1] /\ p[2] <= q[2])

RECURSIVE relax(_, _, _, _, _)
relax(adj, i, d, dist_km, heap) ==
    IF i > Len(adj) THEN <<dist_km, heap>>
    ELSE LET nxt == adj[i][1]
             nd  == d + adj[i][2]
         IN  IF nd < dist_km[nxt]
             THEN relax(adj, i + 1, d, [dist_km EXCEPT ![nxt] = nd],
                        heap \cup {<<nd, nxt>>})
             ELSE relax(adj, i + 1, d, dist_km, heap)

RECURSIVE dijkstra_loop(_, _, _)
dijkstra_loop(g, dist_km, heap) ==
    IF heap = {} THEN dist_km
    ELSE LET top  == HeapMinPair(heap)
             rest == heap \ {top}
         IN  IF top[1] > dist_km[top[2]]
             THEN dijkstra_loop(g, dist_km, rest)
             ELSE LET r == relax(GraphAt(g, top[2]), 1, top[1], dist_km, rest)
                  IN  dijkstra_loop(g, r[1], r[2])

\* mutant: the distances are returned in kilometres, not scaled to minutes
single_source_times_unscaled(n, g, speed, src) ==
    dijkstra_loop(g, [v \in 1..n |-> IF v = src THEN 0 ELSE Inf], {<<0, src>>})

single_source_times(n, g, speed, src) ==
    LET dist0   == [v \in 1..n |-> IF v = src THEN 0 ELSE Inf]
        dist_km == dijkstra_loop(g, dist0, {<<0, src>>})
    IN  [v \in 1..n |-> Times(dist_km[v], minutes_per_km(speed))]

compute_all_shortest_times(n, g, speed) ==
    [v \in 1..n |-> single_source_times(n, g, speed, v)]

----------------------------------------------------------------------------
(***************************************************************************)
(* Helpers of solve                                                        *)
(***************************************************************************)

\* self.all_times[cur].get(dest, math.inf); cur is a node of the table
all_times_get(cur, dest) ==
    IF dest \in DOMAIN all_times[cur] THEN all_times[cur][dest] ELSE Inf

RECURSIVE heuristic_from(_, _)
heuristic_from(taxi_list, i) ==
    IF i > Len(taxi_list) THEN 0
    ELSE LET t == taxi_list[i]
         IN  IF t.done THEN heuristic_from(taxi_list, i + 1)
             ELSE Plus(all_times_get(t.pos, t.dest),
                       heuristic_from(taxi_list, i + 1))

\* mutant: every remaining shortest time is counted twice
admissible_sum_heuristic_doubled(taxi_list) ==
    Times(heuristic_from(taxi_list, 1), 2)

admissible_sum_heuristic(taxi_list) == heuristic_from(taxi_list, 1)

\* the heuristic's lookup self.all_times[cur] raises KeyError for a taxi that is
\* not done and stands on a node outside the table
heuristic_raises(taxi_list) ==
    \E i \in DOMAIN taxi_list :
        ~taxi_list[i].done /\ taxi_list[i].pos \notin DOMAIN all_times

\* mutant: the key of an edge is the pair in the direction driven
undirected_edge_as_driven(u, v) == <<u, v>>

undirected_edge(u, v) == IF u <= v THEN <<u, v>> ELSE <<v, u>>

\* the test of _overlapping_count for one record
overlaps(rec, edge_key, s_time, e_time) ==
    rec.edge = edge_key /\ ~(rec.end <= s_time \/ rec.start >= e_time)

overlapping_count(schedule, edge_key, s_time, e_time) ==
    Cardinality({k \in DOMAIN schedule :
                    overlaps(schedule[k], edge_key, s_time, e_time)})

\* mutant: the route of a taxi starts empty instead of [origin]
initialize_taxi_states_no_route(trs) ==
    [i \in DOMAIN trs |->
        [pos          |-> trs[i][1],
         available_at |-> 0,
         done         |-> trs[i][1] = trs[i][2],
         dest         |-> trs[i][2],
         route        |-> <<>>,
         wait_events  |-> <<>>]]

\* mutant: no taxi starts done, also when its origin is its destination
initialize_taxi_states_not_done(trs) ==
    [i \in DOMAIN trs |->
        [pos          |-> trs[i][1],
         available_at |-> 0,
         done         |-> FALSE,
         dest         |-> trs[i][2],
         route        |-> <<trs[i][1]>>,
         wait_events  |-> <<>>]]

initialize_taxi_states(trs) ==
    [i \in DOMAIN trs |->
        [pos          |-> trs[i][1],
         available_at |-> 0,
         done         |-> trs[i][1] = trs[i][2],
         dest         |-> trs[i][2],
         route        |-> <<trs[i][1]>>,
         wait_events  |-> <<>>]]

\* tuple(sorted(ts.items())): the items in the order of their keys
serialize_state(ts) ==
    << <<"available_at", ts.available_at>>, <<"dest", ts.dest>>,
       <<"done", ts.done>>, <<"pos", ts.pos>>, <<"route", ts.route>>,
       <<"wait_events", ts.wait_events>> >>

serialize_states(taxi_states) ==
    [i \in DOMAIN taxi_states |-> serialize_state(taxi_states[i])]

\* dict(s)[key]
dict_get(s, key) == s[CHOOSE i \in DOMAIN s : s[i][1] = key][2]

deserialize_states(ser_states) ==
    [i \in DOMAIN ser_states |->
        [pos          |-> dict_get(ser_states[i], "pos"),
         available_at |-> dict_get(ser_states[i], "available_at"),
         done         |-> dict_get(ser_states[i], "done"),
         dest         |-> dict_get(ser_states[i], "dest"),
         route        |-> dict_get(ser_states[i], "route"),
         wait_events  |-> dict_get(ser_states[i], "wait_events")]]

\* tuple(sorted(entry.items())) of one schedule entry
serialize_entry(entry) ==
    << <<"edge", entry.edge>>, <<"end", entry.end>>,
       <<"start", entry.start>>, <<"taxi", entry.taxi>> >>

serialize_schedule(schedule) ==
    [k \in DOMAIN schedule |-> serialize_entry(schedule[k])]

deserialize_schedule(ser_schedule) ==
    [k \in DOMAIN ser_schedule |->
        LET e == ser_schedule[k]
        IN  [edge  |-> IF e[1][1] = "edge" THEN e[1][2] ELSE dict_get(e, "edge"),
             start |-> dict_get(e, "start"),
             end   |-> dict_get(e, "end"),
             taxi  |-> dict_get(e, "taxi")]]

get_canonical_key(taxi_states) ==
    [i \in DOMAIN taxi_states |->
        <<taxi_states[i].pos, PyRound(taxi_states[i].available_at),
          taxi_states[i].done>>]

\* mutant: a stack in place of the heap: the tuple pushed last is popped
heap_top_last_pushed(heap) ==
    CHOOSE n \in heap : \A m \in heap : n.counter >= m.counter

\* heappop: the smallest tuple (f, g, counter, ...); counters are distinct
heap_top(heap) ==
    CHOOSE n \in heap :
        \A m \in heap :
            \/ n.f < m.f
            \/ n.f = m.f /\ n.g < m.g
            \/ n.f = m.f /\ n.g = m.g /\ n.counter <= m.counter

\* mutant: the loop leaves with two overlapping entries (capacity three)
edge_free_with_two(c) == c <= 2

\* mutant: the loop leaves only with no overlapping entry (capacity one)
edge_free_with_none(c) == c <= 0

\* if c <= 1: break
edge_free(c) == c <= 1

\* the test the while True loop makes after k postponements
free_after(schedule, ek, atime, traversal, penalty, k) ==
    edge_free(overlapping_count(schedule, ek, atime + k * penalty,
                                atime + k * penalty + traversal))

\* mutant: an "if" in place of the loop: a contended start is postponed once
\* and not tested again
resolve_once(schedule, ek, atime, traversal, penalty) ==
    IF free_after(schedule, ek, atime, traversal, penalty, 0)
    THEN [start |-> atime, attempts |-> 0]
    ELSE [start |-> atime + penalty, attempts |-> 1]

\* mutant: a postponement moves the start by two wait penalties
postpone_twice(attempt_time, penalty) == attempt_time + 2 * penalty

\* attempt_time += self.wait_penalty
postpone(attempt_time, penalty) == attempt_time + penalty

\* mutant: the loop is left one postponement later
cap_reached_late(attempts) == attempts > MaxAttempts + 1

\* if attempts > 200: break
cap_reached(attempts) == attempts > MaxAttempts

\* one iteration of the while True loop of solve on the loop's variables
\* attempt_time and attempts; left is set when the iteration leaves the loop by
\* one of its two breaks
loop_step(schedule, ek, traversal, penalty, st) ==
    IF edge_free(overlapping_count(schedule, ek, st.attempt_time,
                                   st.attempt_time + traversal))
    THEN [st EXCEPT !.left = TRUE]
    ELSE [attempt_time |-> postpone(st.attempt_time, penalty),
          attempts     |-> st.attempts + 1,
          left         |-> cap_reached(st.attempts + 1)]

\* up to n iterations of the loop; the state after an iteration is bound as a
\* value before the next iteration is taken
RECURSIVE loop_steps(_, _, _, _, _, _)
loop_steps(schedule, ek, traversal, penalty, st, n) ==
    IF n = 0 \/ st.left THEN st
    ELSE CHOOSE r \in
            { loop_steps(schedule, ek, traversal, penalty, s, n - 1) :
                s \in {loop_step(schedule, ek, traversal, penalty, st)} } : TRUE

\* the loop run until it is left, sixteen iterations at a time
RECURSIVE loop_run(_, _, _, _, _)
loop_run(schedule, ek, traversal, penalty, st) ==
    IF st.left THEN st
    ELSE CHOOSE r \in
            { loop_run(schedule, ek, traversal, penalty, s) :
                s \in {loop_steps(schedule, ek, traversal, penalty, st, 16)} } : TRUE

\* the while True loop of solve: the start it settles on and the number of
\* postponements it made
resolve(schedule, ek, atime, traversal, penalty) ==
    LET st == loop_run(schedule, ek, traversal, penalty,
                       [attempt_time |-> atime, attempts |-> 0, left |-> FALSE])
    IN  [start |-> st.attempt_time, attempts |-> st.attempts]

\* mutant: the expansion does not skip the taxis that are done
skip_taxi_never(t) == FALSE

\* if t["done"]: continue
skip_taxi(t) == t.done

\* the (idx, neighbour index) pairs in the order of solve's two for loops
RECURSIVE moves_from(_, _, _)
moves_from(taxi_states, idx, j) ==
    IF idx > Len(taxi_states) THEN <<>>
    ELSE IF skip_taxi(taxi_states[idx])
               \/ j > Len(GraphAt(graph, taxi_states[idx].pos))
         THEN moves_from(taxi_states, idx + 1, 1)
         ELSE <<<<idx, j>>>> \o moves_from(taxi_states, idx, j + 1)

moves(taxi_states) == moves_from(taxi_states, 1, 1)

\* the conflict-resolution loop run for taxi idx taking its j-th edge
resolve_move(taxi_states, schedule, idx, j) ==
    LET t           == taxi_states[idx]
        current_pos == t.pos
        nbr         == GraphAt(graph, current_pos)[j][1]
        km          == GraphAt(graph, current_pos)[j][2]
        traversal   == km * minutes_per_km(speed_kmh)
        ek          == undirected_edge(current_pos, nbr)
    IN  resolve(schedule, ek, t.available_at, traversal, 2 * wait_penalty)

\* mutant: the previous available_at is not subtracted
move_delta_from_zero(end_time, atime) == end_time

\* delta = new_states[idx]["available_at"] - atime
move_delta(end_time, atime) == end_time - atime

\* mutant: the frontier is ordered by the heuristic alone
node_f_heuristic_only(new_g, new_h) == new_h

\* the priority new_g + new_h of a pushed tuple
node_f(new_g, new_h) == Plus(new_g, new_h)

\* mutant: the arrival is counted from time zero, not from the start
arrival_from_zero(attempt_time, traversal) == traversal

\* end_time = attempt_time + traversal
arrival(attempt_time, traversal) == attempt_time + traversal

\* mutant: a wait event is recorded for every move, delayed or not
waited_always(attempt_time, atime) == attempt_time >= atime

\* if attempt_time > atime
waited(attempt_time, atime) == attempt_time > atime

\* mutant: the new entry replaces the last entry of the parent's schedule
copy_and_replace_last(schedule, entry) ==
    IF schedule = <<>> THEN <<entry>>
    ELSE Append(SubSeq(schedule, 1, Len(schedule) - 1), entry)

\* new_schedule = list(schedule); new_schedule.append(entry)
copy_and_append(schedule, entry) == Append(schedule, entry)

\* the body of the inner for loop: the tuple pushed for taxi idx taking its
\* j-th edge, numbered ctr; the start the loop settles on is bound once, as
\* the code's attempt_time is
successor(g, taxi_states, schedule, idx, j, ctr) ==
    LET t            == taxi_states[idx]
        current_pos  == t.pos
        atime        == t.available_at
        nbr          == GraphAt(graph, current_pos)[j][1]
        km           == GraphAt(graph, current_pos)[j][2]
        traversal    == km * minutes_per_km(speed_kmh)
        ek           == undirected_edge(current_pos, nbr)
        pushed(attempt_time) ==
            LET end_time     == arrival(attempt_time, traversal)
                new_schedule == copy_and_append(schedule,
                                    [edge |-> ek, start |-> attempt_time,
                                     end |-> end_time, taxi |-> idx - 1])
                moved        == [t EXCEPT
                                    !.pos = nbr,
                                    !.available_at = end_time,
                                    !.route = Append(@, nbr),
                                    !.wait_events =
                                        IF waited(attempt_time, atime)
                                        THEN Append(@, [node |-> current_pos,
                                                        from |-> atime,
                                                        to |-> attempt_time,
                                                        reason |-> "capacity"])
                                        ELSE @,
                                    !.done = IF nbr = t.dest THEN TRUE ELSE @]
                new_states   == [taxi_states EXCEPT ![idx] = moved]
                delta        == move_delta(new_states[idx].available_at, atime)
                new_g        == g + delta
                new_h        == admissible_sum_heuristic(new_states)
            IN  [f            |-> node_f(new_g, new_h),
                 g            |-> new_g,
                 counter      |-> ctr,
                 ser_states   |-> serialize_states(new_states),
                 ser_schedule |-> serialize_schedule(new_schedule)]
    IN  CHOOSE n \in
            { pushed(a) :
                a \in {resolve_move(taxi_states, schedule, idx, j).start} } : TRUE

all_done(taxi_states) == \A i \in DOMAIN taxi_states : taxi_states[i].done

----------------------------------------------------------------------------
(***************************************************************************)
(* Inputs                                                                  *)
(***************************************************************************)

\* edge lists over the nodes 1..3: each of the edges 1-2, 2-3 is absent or has
\* a length in 1..MaxKm; the edge 1-3 is absent or has a length in
\* 1..MaxKm + 1, so that the direct road can be longer than the road through 2
EdgeLists ==
    { LET e12 == IF k[1] = 0 THEN <<>> ELSE <<<<1, 2, k[1]>>>>
          e23 == IF k[2] = 0 THEN <<>> ELSE <<<<2, 3, k[2]>>>>
          e13 == IF k[3] = 0 THEN <<>> ELSE <<<<1, 3, k[3]>>>>
      IN  e12 \o e23 \o e13 :
            k \in {x \in [1..3 -> 0..MaxKm + 1] : x[1] <= MaxKm /\ x[2] <= MaxKm} }

Pairs == {<<o, d>> : o \in 1..3, d \in 1..3}

\* trip lists: up to MaxTaxis taxis with the same trip, or two taxis with any
\* two trips
TripLists ==
    {[i \in 1..n |-> t] : n \in 1..MaxTaxis, t \in Pairs}
        \cup {<<t1, t2>> : t1 \in Pairs, t2 \in Pairs}

\* every graph on three nodes with every trip list
GenericInputs ==
    [num_nodes : {3}, edges : EdgeLists, trips : TripLists,
     wait_penalty : {1}, speed_kmh : {40}]

\* the scenarios of the specification's section 8; three taxis at 120 km/h on
\* roads of 1.5 and 2.0 minutes, whose arrival times round to the same minute;
\* three taxis on one road with a wait penalty of zero; three taxis on a road
\* of 210 minutes with a wait penalty of one minute
ScenarioInputs ==
    { [num_nodes |-> 3, edges |-> <<<<1, 2, 10>>, <<2, 3, 10>>>>,
       trips |-> <<<<1, 3>>>>, wait_penalty |-> 30, speed_kmh |-> 40],
      [num_nodes |-> 2, edges |-> <<<<1, 2, 40>>>>,
       trips |-> <<<<1, 2>>, <<1, 2>>>>, wait_penalty |-> 30, speed_kmh |-> 40],
      [num_nodes |-> 2, edges |-> <<<<1, 2, 40>>>>,
       trips |-> <<<<1, 2>>, <<1, 2>>, <<1, 2>>>>,
       wait_penalty |-> 30, speed_kmh |-> 40],
      [num_nodes |-> 3, edges |-> <<<<2, 3, 4>>, <<1, 3, 4>>, <<2, 3, 3>>>>,
       trips |-> <<<<1, 3>>, <<1, 3>>, <<2, 1>>>>,
       wait_penalty |-> 1, speed_kmh |-> 120],
      [num_nodes |-> 2, edges |-> <<<<1, 2, 1>>>>,
       trips |-> <<<<1, 2>>, <<1, 2>>, <<1, 2>>>>,
       wait_penalty |-> 0, speed_kmh |-> 60],
      [num_nodes |-> 2, edges |-> <<<<1, 2, 140>>>>,
       trips |-> <<<<1, 2>>, <<1, 2>>, <<1, 2>>>>,
       wait_penalty |-> 1, speed_kmh |-> 40] }

\* trips that name a node outside 1..num_nodes
MalformedInputs ==
    [num_nodes : {3}, edges : {<<<<1, 2, 1>>>>},
     trips : {<<<<1, 4>>>>, <<<<3, 4>>>>, <<<<4, 1>>>>, <<<<0, 2>>>>,
              <<<<4, 4>>>>, <<<<1, 2>>, <<2, 4>>>>},
     wait_penalty : {1}, speed_kmh : {40}]

Inputs == GenericInputs \cup ScenarioInputs \cup MalformedInputs

\* no WordleGame exists
GameIdle ==
    /\ max_attempts = 0
    /\ current_game = <<>>
    /\ game_arg = <<>>
    /\ game_ret = <<>>

\* no CSPSolver exists
SolverIdle ==
    /\ possible_words = {}
    /\ guess_history = <<>>
    /\ feedback_history = <<>>
    /\ constraints = <<>>
    /\ solver_call = <<>>

\* no TaxiRouter exists
TaxiIdle ==
    /\ num_nodes = 0
    /\ edges = <<>>
    /\ trips = <<>>
    /\ wait_penalty = 0
    /\ speed_kmh = 0
    /\ graph = <<>>
    /\ all_times = <<>>
    /\ open_heap = {}
    /\ counter = 0
    /\ seen = <<>>
    /\ solution = None
    /\ discards = 0
    /\ capped = FALSE
    /\ pc = "idle"

\* TaxiRouter.__init__ followed by the first lines of solve's frame
Init ==
    \E inp \in Inputs :
        /\ num_nodes = inp.num_nodes
        /\ edges = inp.edges
        /\ trips = inp.trips
        /\ wait_penalty = inp.wait_penalty
        /\ speed_kmh = inp.speed_kmh
        /\ graph = build_graph(inp.num_nodes, inp.edges)
        /\ all_times = compute_all_shortest_times(
                            inp.num_nodes, build_graph(inp.num_nodes, inp.edges),
                            inp.speed_kmh)
        /\ open_heap = {}
        /\ counter = 0
        /\ seen = <<>>
        /\ solution = None
        /\ discards = 0
        /\ capped = FALSE
        /\ pc = "init"
        /\ GameIdle
        /\ SolverIdle

----------------------------------------------------------------------------
(***************************************************************************)
(* solve                                                                   *)
(***************************************************************************)

\* lines 127-137: the root is pushed; the heuristic raises KeyError when a taxi
\* that is not done starts outside 1..num_nodes
Start ==
    /\ pc = "init"
    /\ LET taxi_states_init == initialize_taxi_states(trips)
       IN  IF heuristic_raises(taxi_states_init)
           THEN /\ pc' = "raised"
                /\ UNCHANGED <<open_heap, counter>>
           ELSE LET g0 == 0
                    h0 == admissible_sum_heuristic(taxi_states_init)
                IN  /\ open_heap' =
                            {[f            |-> node_f(g0, h0),
                              g            |-> g0,
                              counter      |-> counter,
                              ser_states   |-> serialize_states(taxi_states_init),
                              ser_schedule |-> <<>>]}
                    /\ counter' = counter + 1
                    /\ pc' = "loop"
    /\ UNCHANGED <<instance, seen, solution, discards, capped>>
    /\ UNCHANGED <<game_vars, solver_vars>>

\* one iteration of the while loop that pops an all-done node: lines 140-146;
\* in each iteration the popped tuple and what is deserialized from it are
\* bound once, as the code's local variables are
Goal ==
    /\ pc = "loop"
    /\ open_heap # {}
    /\ \E node \in {heap_top(open_heap)} :
       \E taxi_states \in {deserialize_states(node.ser_states)} :
       \E schedule \in {deserialize_schedule(node.ser_schedule)} :
           /\ all_done(taxi_states)
           /\ solution' = [found |-> TRUE, g |-> node.g,
                           taxi_states |-> taxi_states, schedule |-> schedule]
           /\ open_heap' = open_heap \ {node}
           /\ pc' = "returned"
    /\ UNCHANGED <<instance, counter, seen, discards, capped>>
    /\ UNCHANGED <<game_vars, solver_vars>>

\* mutant: a node is discarded only when a strictly smaller g is recorded
dominated_strictly(s, key, g) ==
    \E k \in DOMAIN s : s[k][1] = key /\ s[k][2] < g

\* mutant: every popped node that is not all-done is discarded
dominated_always(s, key, g) == TRUE

\* if key in seen and seen[key] <= g
dominated(s, key, g) ==
    \E k \in DOMAIN s : s[k][1] = key /\ s[k][2] <= g

\* one iteration that discards the popped node: lines 140-150; the loop ends
\* (and solve returns None) when that empties the heap
Prune ==
    /\ pc = "loop"
    /\ open_heap # {}
    /\ \E node \in {heap_top(open_heap)} :
       \E taxi_states \in {deserialize_states(node.ser_states)} :
       \E key \in {get_canonical_key(taxi_states)} :
           /\ ~all_done(taxi_states)
           /\ dominated(seen, key, node.g)
           /\ open_heap' = open_heap \ {node}
           /\ discards' = discards + 1
           /\ pc' = IF open_heap' = {} THEN "returned" ELSE "loop"
    /\ UNCHANGED <<instance, counter, seen, solution, capped>>
    /\ UNCHANGED <<game_vars, solver_vars>>

\* seen[key] = g
seen_put(s, key, g) ==
    IF \E k \in DOMAIN s : s[k][1] = key
    THEN [k \in DOMAIN s |-> IF s[k][1] = key THEN <<key, g>> ELSE s[k]]
    ELSE Append(s, <<key, g>>)

\* mutant: the counter is not advanced between the pushes of one expansion
push_counter_stuck(ctr, m) == ctr

\* counter += 1 after every push: the number of the m-th tuple an expansion
\* pushes
push_counter(ctr, m) == ctr + m - 1

\* one iteration that expands the popped node: lines 140-218
Expand ==
    /\ pc = "loop"
    /\ open_heap # {}
    /\ counter <= MaxCounter
    /\ \E node \in {heap_top(open_heap)} :
       \E taxi_states \in {deserialize_states(node.ser_states)} :
       \E schedule \in {deserialize_schedule(node.ser_schedule)} :
       \E key \in {get_canonical_key(taxi_states)} :
       \E ms \in {moves(taxi_states)} :
           /\ ~all_done(taxi_states)
           /\ ~dominated(seen, key, node.g)
           /\ seen' = seen_put(seen, key, node.g)
           /\ open_heap' = (open_heap \ {node}) \cup
                  { successor(node.g, taxi_states, schedule,
                              ms[m][1], ms[m][2], push_counter(counter, m)) :
                        m \in DOMAIN ms }
           /\ counter' = counter + Len(ms)
           /\ capped' = (capped \/ \E m \in DOMAIN ms :
                            resolve_move(taxi_states, schedule, ms[m][1],
                                         ms[m][2]).attempts > MaxAttempts)
           /\ pc' = IF open_heap' = {} THEN "returned" ELSE "loop"
    /\ UNCHANGED <<instance, solution, discards>>
    /\ UNCHANGED <<game_vars, solver_vars>>

Next == Start \/ Goal \/ Prune \/ Expand

Spec == Init /\ [][Next]_vars

----------------------------------------------------------------------------
(***************************************************************************)
(* Properties                                                              *)
(***************************************************************************)

\* the search nodes that exist in a state: the tuples of the frontier, each
\* deserialized as solve deserializes it when it pops it
Nodes ==
    { [g           |-> n.g,
       f           |-> n.f,
       taxi_states |-> deserialize_states(n.ser_states),
       schedule    |-> deserialize_schedule(n.ser_schedule)] : n \in open_heap }

Returned == pc = "returned" /\ solution # None

\* two half-open intervals [start, end) of schedule entries meet
Meet(a, b) == a.start < b.end /\ b.start < a.end

\* three entries of one edge whose intervals all meet one another
TripleOverlap(schedule) ==
    \E i, j, k \in DOMAIN schedule :
        /\ i < j /\ j < k
        /\ schedule[i].edge = schedule[j].edge
        /\ schedule[j].edge = schedule[k].edge
        /\ Meet(schedule[i], schedule[j])
        /\ Meet(schedule[j], schedule[k])
        /\ Meet(schedule[i], schedule[k])

\* C1: while no conflict-resolution loop has hit its retry cap, no schedule of
\* a search node or of the returned solution has three entries of one edge
\* whose intervals [start, end) all overlap one another.
C1_AtMostTwoCrossings ==
    ~capped =>
        /\ \A n \in Nodes : ~TripleOverlap(n.schedule)
        /\ ~TripleOverlap(solution.schedule)

\* a node in which two crossings of an edge are simultaneous and a third
\* crossing of that edge was postponed behind them
C1_Witness ==
    /\ ~capped
    /\ \E n \in Nodes :
        \E i, j, k \in DOMAIN n.schedule :
            /\ i < j /\ j < k
            /\ n.schedule[i].edge = n.schedule[k].edge
            /\ n.schedule[j].edge = n.schedule[k].edge
            /\ Meet(n.schedule[i], n.schedule[j])
            /\ n.schedule[k].start >= n.schedule[i].end
            /\ n.taxi_states[n.schedule[k].taxi + 1].wait_events # <<>>


\* the cost g + h of a node's cheapest conceivable completion: every taxi
\* that is not done still needs at least its shortest travel time
LowerBound(g, taxi_states) == Plus(g, admissible_sum_heuristic(taxi_states))

\* some fully-completed joint state reachable from the node (g, taxi_states,
\* schedule) by single-taxi edge moves, each started when the conflict
\* resolver says, costs less than bound
RECURSIVE cheaper_completion(_, _, _, _)
cheaper_completion(g, taxi_states, schedule, bound) ==
    /\ LowerBound(g, taxi_states) < bound
    /\ \/ all_done(taxi_states)
       \/ LET ms == moves(taxi_states)
          IN  \E m \in DOMAIN ms :
                LET n == successor(g, taxi_states, schedule, ms[m][1], ms[m][2], 0)
                IN  cheaper_completion(n.g, deserialize_states(n.ser_states),
                                       deserialize_schedule(n.ser_schedule), bound)

\* the returned totalCost is the lowest cost of any completion reachable from
\* the root
LowestCost ==
    ~cheaper_completion(0, initialize_taxi_states(trips), <<>>, solution.g)

\* C2 as stated: whenever solve returns a Solution, its totalCost is the lowest
\* cost of any fully-completed joint state reachable from the root; dominance
\* pruning never discards every minimum-cost completion.
C2_ReturnsLowestCost == Returned => LowestCost

\* C2 as amended: when solve returns a Solution without having discarded any
\* popped node by the dominance check, its totalCost is the lowest cost of any
\* fully-completed joint state reachable from the root.
C2_LowestCostWithoutDiscards == (Returned /\ discards = 0) => LowestCost

\* a Solution for two taxis, one of them routed over two edges, returned by a
\* search that discarded no node
C2_Witness ==
    /\ Returned
    /\ discards = 0
    /\ Len(trips) = 2
    /\ \E i \in DOMAIN solution.taxi_states :
            Len(solution.taxi_states[i].route) = 3

\* Taxi i's destination cannot be reached from its origin.
Unreachable(i) ==
    /\ trips[i][1] \in DOMAIN all_times
    /\ all_times_get(trips[i][1], trips[i][2]) = Inf

\* C3 as stated, with the model's cut-off: for an instance in which some
\* taxi's destination is unreachable from its origin, solve has returned None
\* (without raising) by the time its insertion counter passes MaxCounter.
C3_UnreachableReturnsNone ==
    ((\E i \in DOMAIN trips : Unreachable(i)) /\ counter > MaxCounter)
        => (pc = "returned" /\ solution = None)


\* the travel times of the edges that join u and v
EdgeTimes(u, v) ==
    { edges[k][3] * minutes_per_km(speed_kmh) :
        k \in { x \in DOMAIN edges : undirected_edge(edges[x][1], edges[x][2])
                                        = undirected_edge(u, v) } }

Joined(u, v) == EdgeTimes(u, v) # {}

MinOf(S) == CHOOSE x \in S : \A y \in S : x <= y

\* the least time in which a route can be driven; Inf when two consecutive
\* nodes of it are not joined by an edge
RECURSIVE RouteTime(_)
RouteTime(route) ==
    IF Len(route) <= 1 THEN 0
    ELSE IF ~Joined(route[1], route[2]) THEN Inf
    ELSE Plus(MinOf(EdgeTimes(route[1], route[2])), RouteTime(Tail(route)))

SingleConnectedTrip ==
    /\ Len(trips) = 1
    /\ trips[1][1] \in 1..num_nodes
    /\ trips[1][2] \in 1..num_nodes
    /\ all_times[trips[1][1]][trips[1][2]] # Inf

PathScenario ==
    /\ edges = <<<<1, 2, 10>>, <<2, 3, 10>>>>
    /\ trips = <<<<1, 3>>>>
    /\ speed_kmh = 40

\* C4: for a single trip whose destination is connected to its origin, the
\* search is never cut off by the model's bound, and what solve returns is a
\* Solution whose totalCost is all_times[origin][dest] and whose route is a
\* path of that length from origin to dest; on the path 1-2-3 with 15-minute
\* edges and the trip (1,3) the cost is 30 minutes and the route is [1,2,3].
C4_SingleTripShortest ==
    SingleConnectedTrip =>
        /\ pc = "loop" => counter <= MaxCounter
        /\ pc = "returned" =>
              /\ solution # None
              /\ solution.g = all_times[trips[1][1]][trips[1][2]]
              /\ RouteTime(solution.taxi_states[1].route) = solution.g
              /\ solution.taxi_states[1].route[1] = trips[1][1]
              /\ solution.taxi_states[1].pos = trips[1][2]
              /\ PathScenario =>
                    /\ solution.g = 2 * 30
                    /\ solution.taxi_states[1].route = <<1, 2, 3>>

\* the path scenario has returned, and so has a trip whose direct road is
\* longer than the road through the third node
C4_Witness ==
    /\ SingleConnectedTrip
    /\ Returned
    /\ Len(solution.taxi_states[1].route) = 3
    /\ Joined(trips[1][1], trips[1][2])

\* the end of the last schedule entry owned by taxi i (0 when it owns none)
LastEnd(schedule, i) ==
    LET own == {k \in DOMAIN schedule : schedule[k].taxi = i - 1}
    IN  IF own = {} THEN 0
        ELSE schedule[CHOOSE k \in own : \A x \in own : x <= k].end

\* C5: in a returned Solution every taxi's route starts at its trip's origin,
\* ends at its trip's destination, where the taxi stands, moves only along
\* edges of the graph, and the taxi's completion time available_at is the end of
\* its last traversal.
C5_RoutesJoinOriginToDest ==
    Returned =>
        \A i \in DOMAIN trips :
            LET t == solution.taxi_states[i]
            IN  /\ Len(t.route) >= 1
                /\ t.route[1] = trips[i][1]
                /\ t.route[Len(t.route)] = trips[i][2]
                /\ t.pos = trips[i][2]
                /\ \A k \in 1..(Len(t.route) - 1) : Joined(t.route[k], t.route[k + 1])
                /\ t.available_at = LastEnd(solution.schedule, i)

\* a returned Solution in which two taxis have driven, one of them over two
\* edges
C5_Witness ==
    /\ Returned
    /\ \E i, j \in DOMAIN trips :
        /\ i # j
        /\ Len(solution.taxi_states[i].route) = 3
        /\ Len(solution.taxi_states[j].route) >= 2

RECURSIVE SumAvailable(_)
SumAvailable(taxi_states) ==
    IF taxi_states = <<>> THEN 0
    ELSE Head(taxi_states).available_at + SumAvailable(Tail(taxi_states))

\* C6: in every search node g is the sum over the taxis of available_at, and the
\* totalCost of a returned Solution is the sum of the taxis' completion times.
C6_CostIsSumOfCompletionTimes ==
    /\ \A n \in Nodes : n.g = SumAvailable(n.taxi_states)
    /\ solution.g = SumAvailable(solution.taxi_states)

\* a returned Solution of several taxis, one of which waited and one of which
\* drove two edges
C6_Witness ==
    /\ Returned
    /\ \E i, j \in DOMAIN trips :
        /\ solution.taxi_states[i].wait_events # <<>>
        /\ Len(solution.taxi_states[j].route) = 3
    /\ solution.g > 0

ThreeTaxiScenario ==
    /\ edges = <<<<1, 2, 40>>>>
    /\ trips = <<<<1, 2>>, <<1, 2>>, <<1, 2>>>>
    /\ wait_penalty = 30
    /\ speed_kmh = 40

\* exactly one taxi of the solution has waited: once, at node 1, from time 0
\* for the given number of minutes, completing at the given minute
OneTaxiWaited(wait_minutes, completion_minutes) ==
    \E i \in DOMAIN trips :
        /\ solution.taxi_states[i].wait_events =
              <<[node |-> 1, from |-> 0, to |-> 2 * wait_minutes,
                 reason |-> "capacity"]>>
        /\ solution.taxi_states[i].available_at = 2 * completion_minutes
        /\ \A j \in DOMAIN trips \ {i} :
              /\ solution.taxi_states[j].wait_events = <<>>
              /\ solution.taxi_states[j].available_at = 2 * 60

\* C7 as stated: for three trips (1,2) over one 60-minute edge with
\* waitPenalty 30 the delayed taxi waits 30 minutes and completes at minute 90.
C7_ThirdTaxiWaits30 ==
    (ThreeTaxiScenario /\ pc = "returned") =>
        (solution # None /\ OneTaxiWaited(30, 90))

\* C7 as amended: the delayed taxi is postponed twice by waitPenalty: it
\* waits 60 minutes, until the two simultaneous crossings have ended, and
\* completes at minute 120, with one wait event; the other two complete at 60.
C7_ThirdTaxiWaits60 ==
    (ThreeTaxiScenario /\ pc = "returned") =>
        (solution # None /\ OneTaxiWaited(60, 120))

C7_Witness ==
    /\ ThreeTaxiScenario
    /\ Returned
    /\ \E i \in DOMAIN trips : solution.taxi_states[i].wait_events # <<>>

TwoTaxiScenario ==
    /\ edges = <<<<1, 2, 40>>>>
    /\ trips = <<<<1, 2>>, <<1, 2>>>>
    /\ wait_penalty = 30
    /\ speed_kmh = 40

\* C8: for two trips (1,2) over one 60-minute edge with waitPenalty 30 the
\* returned Solution has totalCost 120, both completion times 60, no wait event.
C8_TwoTaxisCrossTogether ==
    (TwoTaxiScenario /\ pc = "returned") =>
        /\ solution # None
        /\ solution.g = 2 * 120
        /\ \A i \in DOMAIN trips :
              /\ solution.taxi_states[i].available_at = 2 * 60
              /\ solution.taxi_states[i].wait_events = <<>>
        /\ \A k \in DOMAIN solution.schedule : solution.schedule[k].start = 0

C8_Witness ==
    /\ TwoTaxiScenario
    /\ Returned
    /\ Len(solution.schedule) = 2

RECURSIVE SumAvailableExcept(_, _, _)
SumAvailableExcept(taxi_states, i, k) ==
    IF k > Len(taxi_states) THEN 0
    ELSE (IF k = i THEN 0 ELSE taxi_states[k].available_at)
            + SumAvailableExcept(taxi_states, i, k + 1)

\* the taxi i of a node is as it was initialized, owns no schedule entry, and
\* the node's g is the sum of the other taxis' available_at
Untouched(n, i) ==
    /\ n.taxi_states[i] = [pos |-> trips[i][1], available_at |-> 0, done |-> TRUE,
                           dest |-> trips[i][2], route |-> <<trips[i][1]>>,
                           wait_events |-> <<>>]
    /\ \A k \in DOMAIN n.schedule : n.schedule[k].taxi # i - 1
    /\ n.g = SumAvailableExcept(n.taxi_states, i, 1)

\* C9: a taxi whose trip has origin = destination is done with available_at 0
\* in the root and in every later node: no expansion moves it, its route stays
\* [origin], it owns no schedule entry, and it adds 0 to g and to the totalCost
\* of a returned Solution.
C9_TrivialTripNeverMoves ==
    \A i \in DOMAIN trips :
        trips[i][1] = trips[i][2] =>
            /\ \A n \in Nodes : Untouched(n, i)
            /\ Returned => Untouched(solution, i)

\* a returned Solution in which a taxi with origin = destination stands
\* beside a taxi that has driven
C9_Witness ==
    /\ Returned
    /\ \E i, j \in DOMAIN trips :
        /\ trips[i][1] = trips[i][2]
        /\ Len(solution.taxi_states[j].route) >= 2
        /\ solution.g > 0

DoneIffAtDest(taxi_states) ==
    \A i \in DOMAIN taxi_states :
        taxi_states[i].done <=> (taxi_states[i].pos = taxi_states[i].dest)

\* every tuple an iteration pushes keeps the TaxiState of every taxi that was
\* done in the popped node
DoneIsSticky ==
    (pc = "loop" /\ open_heap # {}) =>
        LET parent == deserialize_states(heap_top(open_heap).ser_states)
        IN  \A n \in open_heap' \ open_heap :
                \A i \in DOMAIN parent :
                    parent[i].done =>
                        deserialize_states(n.ser_states)[i] = parent[i]

\* C10: in every TaxiState of every node done is true exactly when pos = dest,
\* and a taxi that is done in a node has the same pos, available_at, route and
\* wait_events in every successor of that node.
C10_DoneIffAtDestAndSticky ==
    /\ [](/\ \A n \in Nodes : DoneIffAtDest(n.taxi_states)
          /\ DoneIffAtDest(solution.taxi_states))
    /\ [][DoneIsSticky]_vars

\* a node in which a taxi that drove to its destination is done and another
\* taxi has been moved after it
C10_Witness ==
    \E n \in Nodes :
        \E k, m \in DOMAIN n.schedule :
            /\ k < m
            /\ n.schedule[k].taxi # n.schedule[m].taxi
            /\ n.taxi_states[n.schedule[k].taxi + 1].done
            /\ LastEnd(n.schedule, n.schedule[k].taxi + 1) = n.schedule[k].end

----------------------------------------------------------------------------
(***************************************************************************)
(* Properties of the heuristic and of the frontier order                   *)
(***************************************************************************)

\* the node the next iteration of solve expands: the top of the heap, when it
\* is neither all-done nor discarded by the dominance check
Expanding(n) ==
    /\ pc = "loop"
    /\ open_heap # {}
    /\ n = heap_top(open_heap)
    /\ LET taxi_states == deserialize_states(n.ser_states)
           key         == get_canonical_key(taxi_states)
       IN  /\ ~all_done(taxi_states)
           /\ ~\E k \in DOMAIN seen : seen[k][1] = key /\ seen[k][2] <= n.g

\* the shortest traversal time of an edge of the graph (0 without edges)
MinEdgeTime ==
    IF edges = <<>> THEN 0
    ELSE MinOf({edges[k][3] * minutes_per_km(speed_kmh) : k \in DOMAIN edges})

\* the number of edges a taxi has to drive at least: none when it is done, one
\* when an edge joins its position to its destination, two otherwise
MovesNeeded(t) ==
    IF t.done THEN 0 ELSE IF Joined(t.pos, t.dest) THEN 1 ELSE 2

RECURSIVE SumMovesNeeded(_, _)
SumMovesNeeded(taxi_states, i) ==
    IF i > Len(taxi_states) THEN 0
    ELSE MovesNeeded(taxi_states[i]) + SumMovesNeeded(taxi_states, i + 1)

\* every move that is still needed takes at least the shortest edge
OneMoveEach(taxi_states) == SumMovesNeeded(taxi_states, 1) * MinEdgeTime

\* some all-done joint state reachable from the node (g, taxi_states,
\* schedule) by moves started when the conflict resolver says has a cost below
\* bound.  Every move adds at least its traversal time to g and every taxi
\* that is not done has one or two moves to make, so a branch is left as soon
\* as g plus one shortest edge for each such move reaches bound; the table
\* all_times and the heuristic are not consulted.
RECURSIVE completion_below(_, _, _, _)
completion_below(g, taxi_states, schedule, bound) ==
    /\ g + OneMoveEach(taxi_states) < bound
    /\ \/ all_done(taxi_states)
       \/ LET ms == moves(taxi_states)
          IN  \E m \in DOMAIN ms :
                LET n == successor(g, taxi_states, schedule, ms[m][1], ms[m][2], 0)
                IN  completion_below(n.g, deserialize_states(n.ser_states),
                                     deserialize_schedule(n.ser_schedule), bound)

\* the nodes that can be reached from u along edges of the graph
RECURSIVE ReachableFrom(_)
ReachableFrom(S) ==
    LET T == S \cup {v \in 1..num_nodes : \E u \in S : Joined(u, v)}
    IN  IF T = S THEN S ELSE ReachableFrom(T)

\* C11: for every node solve expands, the heuristic (the sum over the taxis
\* that are not done of all_times[pos][dest]) is at most the least additional
\* cost of bringing the node to an all-done state under the capacity and wait
\* rules: no completion of the node costs less than g + h, and when h is
\* infinite some taxi that is not done cannot reach its destination at all.
C11_HeuristicAdmissible ==
    \A n \in open_heap :
        Expanding(n) =>
            LET taxi_states == deserialize_states(n.ser_states)
                schedule    == deserialize_schedule(n.ser_schedule)
                h           == admissible_sum_heuristic(taxi_states)
            IN  /\ h < Inf =>
                     ~completion_below(n.g, taxi_states, schedule, n.g + h)
                /\ h >= Inf =>
                     \E i \in DOMAIN taxi_states :
                        /\ ~taxi_states[i].done
                        /\ taxi_states[i].dest
                              \notin ReachableFrom({taxi_states[i].pos})

\* solve is about to expand a node, reached by a move, whose heuristic is
\* finite and strictly below its true remaining cost: the third taxi of an
\* edge has to wait
C11_Witness ==
    \E n \in open_heap :
        /\ Expanding(n)
        /\ n.ser_schedule # <<>>
        /\ Len(n.ser_states) = 3
        /\ LET taxi_states == deserialize_states(n.ser_states)
               schedule    == deserialize_schedule(n.ser_schedule)
               h           == admissible_sum_heuristic(taxi_states)
           IN  /\ h < Inf
               /\ ~completion_below(n.g, taxi_states, schedule, n.g + h + 1)

\* the order of Python's tuples on the first three components of a frontier
\* tuple
TupleLess(n, m) ==
    \/ n.f < m.f
    \/ n.f = m.f /\ n.g < m.g
    \/ n.f = m.f /\ n.g = m.g /\ n.counter < m.counter

\* the frontier tuples no other tuple precedes
MinTuples(heap) == {n \in heap : \A m \in heap : ~TupleLess(m, n)}

\* the insertion counters of the frontier are pairwise distinct and below the
\* next counter, so heappop has exactly one tuple to return
UniquePop ==
    /\ \A n, m \in open_heap : n.counter = m.counter => n = m
    /\ \A n \in open_heap : n.counter < counter
    /\ open_heap # {} => MinTuples(open_heap) = {heap_top(open_heap)}

\* every step numbers the tuples it pushes from the old counter upwards and
\* advances the counter by their number
CountersIncrease ==
    /\ counter' = counter + Cardinality(open_heap' \ open_heap)
    /\ \A n \in open_heap' \ open_heap :
          n.counter >= counter /\ n.counter < counter'

\* C12: solve is deterministic: frontier ties on (f, g) are broken by a unique,
\* strictly increasing insertion counter, so in every state exactly one tuple
\* is the smallest of the frontier and the popped sequence and the returned
\* totalCost are functions of the inputs.
C12_Deterministic == []UniquePop /\ [][CountersIncrease]_vars

\* the tuple solve pops next ties on (f, g) with another tuple of the frontier
\* and precedes it by its counter
C12_Witness ==
    /\ pc = "loop"
    /\ \E n \in open_heap :
          /\ n # heap_top(open_heap)
          /\ n.f = heap_top(open_heap).f
          /\ n.g = heap_top(open_heap).g
          /\ n.counter > heap_top(open_heap).counter

----------------------------------------------------------------------------
(***************************************************************************)
(* Malformed input                                                         *)
(***************************************************************************)

\* some trip names a node outside 1..num_nodes
Malformed ==
    \E i \in DOMAIN trips :
        trips[i][1] \notin 1..num_nodes \/ trips[i][2] \notin 1..num_nodes

\* C13 as stated: a TaxiRouter built with a trip that names a node outside
\* 1..num_nodes is rejected before solve can search: solve never pushes or pops
\* a node and never returns for such an instance.
C13_MalformedTripNeverSearched ==
    Malformed =>
        /\ pc \notin {"loop", "returned"}
        /\ open_heap = {}
        /\ counter = 0

----------------------------------------------------------------------------
(***************************************************************************)
(* The conflict-resolution loop                                            *)
(***************************************************************************)

\* the proposed traversals of the node solve pops next: for every taxi that is
\* not done and every edge at its position, the schedule, the edge, the
\* proposed start, the duration and what the loop returned
Proposals ==
    IF pc # "loop" \/ open_heap = {} THEN {}
    ELSE LET node        == heap_top(open_heap)
             taxi_states == deserialize_states(node.ser_states)
             schedule    == deserialize_schedule(node.ser_schedule)
             ms          == moves(taxi_states)
         IN  { LET t   == taxi_states[ms[m][1]]
                   adj == GraphAt(graph, t.pos)[ms[m][2]]
               IN  [schedule |-> schedule,
                    edge     |-> undirected_edge(t.pos, adj[1]),
                    proposed |-> t.available_at,
                    duration |-> adj[2] * minutes_per_km(speed_kmh),
                    result   |-> resolve_move(taxi_states, schedule,
                                              ms[m][1], ms[m][2])] :
                 m \in DOMAIN ms }

\* the number of entries of the edge whose interval meets [s, s + duration)
Crossing(schedule, edge, s, duration) ==
    Cardinality({k \in DOMAIN schedule :
                    /\ schedule[k].edge = edge
                    /\ schedule[k].start < s + duration
                    /\ s < schedule[k].end})

\* the delays k * waitPenalty, k within the retry cap, after which at most one
\* entry of the edge is met
FreeDelays(p) ==
    {k \in 0..MaxAttempts :
        Crossing(p.schedule, p.edge, p.proposed + k * 2 * wait_penalty,
                 p.duration) <= 1}

\* at most one entry of the edge is met at the proposed start
FreeAtOnce(p) == Crossing(p.schedule, p.edge, p.proposed, p.duration) <= 1

\* C19: for every proposed traversal for which some k within the retry cap
\* leaves at most one overlapping entry, the loop returns actualStart =
\* proposedStart + k * waitPenalty for the smallest such k; actualStart >=
\* proposedStart, and there is no delay when at most one entry overlaps at the
\* proposed start (k = 0 is then the smallest such k).
C19_SmallestFreeDelay ==
    \A p \in Proposals :
        /\ p.result.start >= p.proposed
        /\ FreeAtOnce(p) =>
              /\ p.result.attempts = 0
              /\ p.result.start = p.proposed
        /\ ~FreeAtOnce(p) =>
              LET fd == FreeDelays(p)
              IN  fd # {} =>
                     LET k == MinOf(fd)
                     IN  /\ p.result.attempts = k
                         /\ p.result.start = p.proposed + k * 2 * wait_penalty

\* a proposed traversal that the loop postponed twice
C19_Witness ==
    \E p \in Proposals :
        /\ wait_penalty > 0
        /\ ~FreeAtOnce(p)
        /\ FreeDelays(p) # {}
        /\ MinOf(FreeDelays(p)) = 2
        /\ p.result.start = p.proposed + 2 * 2 * wait_penalty

\* C20 as stated: the loop makes at most 200 postponements for one proposed
\* traversal, so actualStart - proposedStart never exceeds 200 * waitPenalty.
C20_AtMost200Postponements ==
    \A p \in Proposals :
        /\ p.result.attempts <= MaxAttempts
        /\ p.result.start - p.proposed <= MaxAttempts * 2 * wait_penalty

\* C20 as amended: the loop makes at most 201 postponements for one proposed
\* traversal (it is left when attempts exceeds 200), so actualStart -
\* proposedStart never exceeds 201 * waitPenalty; when the edge is contended at
\* each of the 201 starts it tests, the traversal proceeds at proposedStart +
\* 201 * waitPenalty, a start the loop has not tested.
C20_AtMost201Postponements ==
    \A p \in Proposals :
        /\ p.result.attempts <= MaxAttempts + 1
        /\ p.result.start - p.proposed <= (MaxAttempts + 1) * 2 * wait_penalty
        /\ (~FreeAtOnce(p) /\ FreeDelays(p) = {}) =>
              /\ p.result.attempts = MaxAttempts + 1
              /\ p.result.start =
                    p.proposed + (MaxAttempts + 1) * 2 * wait_penalty

\* a traversal that proceeded after the cap with a positive wait penalty: its
\* tuple is in the frontier, its entry starts 201 wait penalties after the
\* proposed start and meets two other entries of its edge
C20_Witness ==
    /\ wait_penalty > 0
    /\ capped
    /\ \E n \in Nodes :
          \E k \in DOMAIN n.schedule :
              /\ n.schedule[k].start = (MaxAttempts + 1) * 2 * wait_penalty
              /\ Crossing(n.schedule, n.schedule[k].edge, n.schedule[k].start,
                          n.schedule[k].end - n.schedule[k].start) = 3

----------------------------------------------------------------------------
(***************************************************************************)
(* The Wordle game engine: src/core/word_list.py, feedback.py,             *)
(* validator.py and version_2/src/core/game_engine.py.                     *)
(*                                                                         *)
(* A string is the sequence of its characters, each a string of length     *)
(* one.  The characters of the model are the lower-case letters of the     *)
(* words, six upper-case letters, the space and the digit "4".             *)
(***************************************************************************)

\* LetterStatus
CORRECT == 2
PRESENT == 1
ABSENT == 0

\* the words are five letters long (Validator.validate, WordList._load_words)
WordLen == 5

\* the upper-case characters of the model and their lower-case forms
Upper == {"S", "L", "A", "T", "E", "C"}

lower_char(c) ==
    CASE c = "S" -> "s" [] c = "L" -> "l" [] c = "A" -> "a"
      [] c = "T" -> "t" [] c = "E" -> "e" [] c = "C" -> "c"
      [] OTHER -> c

\* str.lower()
lower(s) == [i \in DOMAIN s |-> lower_char(s[i])]

\* str.strip(): leading and trailing white space removed
RECURSIVE strip(_)
strip(s) ==
    IF s = <<>> THEN s
    ELSE IF Head(s) = " " THEN strip(Tail(s))
    ELSE IF s[Len(s)] = " " THEN strip(SubSeq(s, 1, Len(s) - 1))
    ELSE s

\* str.isalpha(): not empty and every character a letter
isalpha(s) == s # <<>> /\ \A i \in DOMAIN s : s[i] \notin {" ", "4"}

\* WordList._get_default_words: the words of a WordList whose files are absent
get_default_words ==
    { <<"s", "l", "a", "t", "e">>, <<"c", "r", "a", "n", "e">>,
      <<"c", "r", "a", "t", "e">>, <<"s", "t", "a", "r", "e">>,
      <<"t", "r", "a", "c", "e">>, <<"a", "r", "i", "s", "e">>,
      <<"r", "a", "i", "s", "e">>, <<"a", "b", "o", "u", "t">>,
      <<"a", "l", "e", "r", "t">>, <<"a", "r", "g", "u", "e">>,
      <<"b", "e", "a", "c", "h">>, <<"a", "b", "o", "v", "e">>,
      <<"a", "c", "u", "t", "e">>, <<"a", "d", "m", "i", "t">>,
      <<"a", "d", "o", "p", "t">>, <<"a", "d", "u", "l", "t">>,
      <<"a", "f", "t", "e", "r">>, <<"a", "g", "a", "i", "n">>,
      <<"a", "g", "e", "n", "t">>, <<"a", "g", "r", "e", "e">>,
      <<"a", "h", "e", "a", "d">>, <<"a", "l", "a", "r", "m">>,
      <<"a", "l", "b", "u", "m">>, <<"a", "l", "l", "o", "w">>,
      <<"a", "l", "o", "n", "e">>, <<"a", "l", "o", "n", "g">>,
      <<"a", "l", "t", "e", "r">>, <<"a", "n", "g", "e", "l">> }

\* WordList.valid_words and WordList.common_words
valid_words == get_default_words

common_words == get_default_words

\* WordList.is_valid
is_valid(word) == lower(word) \in valid_words

\* target_chars[i] = None: a character of the target that is used
NoChar == ""

\* the first pass of Feedback._generate_feedback: the equal positions of
\* zip(guess, target) are CORRECT and used
first_pass_feedback(guess, target) ==
    [i \in 1..Len(guess) |->
        IF i <= Len(target) /\ guess[i] = target[i] THEN CORRECT ELSE ABSENT]

first_pass_target_chars(guess, target) ==
    [i \in 1..Len(target) |->
        IF i <= Len(guess) /\ guess[i] = target[i] THEN NoChar ELSE target[i]]

\* list.index
index(chars, c) ==
    CHOOSE j \in DOMAIN chars :
        chars[j] = c /\ \A k \in 1..(j - 1) : chars[k] # c

\* mutant: a letter of the target that is found is not marked as used
mark_used_never(target_chars, g_char) == target_chars

\* target_chars[target_chars.index(g_char)] = None
mark_used(target_chars, g_char) ==
    [target_chars EXCEPT ![index(target_chars, g_char)] = NoChar]

\* the second pass, from position i on
RECURSIVE second_pass(_, _, _, _)
second_pass(guess, i, feedback, target_chars) ==
    IF i > Len(guess) THEN feedback
    ELSE IF feedback[i] = ABSENT
              /\ \E j \in DOMAIN target_chars : target_chars[j] = guess[i]
         THEN second_pass(guess, i + 1, [feedback EXCEPT ![i] = PRESENT],
                          mark_used(target_chars, guess[i]))
         ELSE second_pass(guess, i + 1, feedback, target_chars)

\* Feedback._generate_feedback
generate_feedback(guess, target) ==
    second_pass(guess, 1, first_pass_feedback(guess, target),
                first_pass_target_chars(guess, target))

\* Feedback(guess, target)
Feedback(guess, target) ==
    [is_none  |-> FALSE,
     guess    |-> lower(guess),
     target   |-> lower(target),
     feedback |-> generate_feedback(lower(guess), lower(target))]

\* a feedback of None
NoFeedback == [is_none |-> TRUE, guess |-> <<>>, target |-> <<>>, feedback |-> <<>>]

\* Feedback.is_correct
is_correct(fb) == \A i \in DOMAIN fb.feedback : fb.feedback[i] = CORRECT

\* mutant: the word list is not consulted
validate_any_word(guess) ==
    IF guess = <<>> THEN [is_valid |-> FALSE, error_msg |-> "Guess cannot be empty"]
    ELSE LET g == lower(strip(guess))
         IN  IF Len(g) # WordLen
             THEN [is_valid |-> FALSE, error_msg |-> "Word must be 5 letters long"]
             ELSE IF ~isalpha(g)
             THEN [is_valid |-> FALSE, error_msg |-> "Word must contain only letters"]
             ELSE [is_valid |-> TRUE, error_msg |-> ""]

\* Validator.validate; the two formatted messages are kept without the value
\* they quote
validate(guess) ==
    IF guess = <<>> THEN [is_valid |-> FALSE, error_msg |-> "Guess cannot be empty"]
    ELSE LET g == lower(strip(guess))
         IN  IF Len(g) # WordLen
             THEN [is_valid |-> FALSE, error_msg |-> "Word must be 5 letters long"]
             ELSE IF ~isalpha(g)
             THEN [is_valid |-> FALSE, error_msg |-> "Word must contain only letters"]
             ELSE IF ~is_valid(g)
             THEN [is_valid |-> FALSE, error_msg |-> "is not a valid word"]
             ELSE [is_valid |-> TRUE, error_msg |-> ""]

\* Validator.sanitize
sanitize(guess) == lower(strip(guess))

\* current_game = None
NoGame ==
    [is_none |-> TRUE, target_word |-> <<>>, max_attempts |-> 0, attempts |-> 0,
     guesses |-> <<>>, feedbacks |-> <<>>, is_won |-> FALSE, is_over |-> FALSE]

\* GameState.__init__
GameState(target_word, attempts_allowed) ==
    [is_none |-> FALSE, target_word |-> lower(target_word),
     max_attempts |-> attempts_allowed, attempts |-> 0,
     guesses |-> <<>>, feedbacks |-> <<>>, is_won |-> FALSE, is_over |-> FALSE]

\* elif self.attempts >= self.max_attempts
out_of_attempts(attempts, attempts_allowed) == attempts >= attempts_allowed

\* GameState.make_guess: the game after the guess
game_make_guess(game, guess) ==
    LET g        == lower(guess)
        feedback == Feedback(g, game.target_word)
        attempts == game.attempts + 1
    IN  [game EXCEPT
            !.guesses   = Append(@, g),
            !.attempts  = attempts,
            !.feedbacks = Append(@, feedback),
            !.is_won    = IF is_correct(feedback) THEN TRUE ELSE @,
            !.is_over   = IF is_correct(feedback) THEN TRUE
                          ELSE IF out_of_attempts(attempts, game.max_attempts)
                               THEN TRUE ELSE @]

\* the largest max_attempts of the enumerated games
MaxGuesses == 3

\* the target words given to start_new_game, which stores any string: three
\* words of the list, one of them written with a capital, a word that is not
\* in the list, and a word of six letters that begins with a word of the list
Targets ==
    { <<"s", "l", "a", "t", "e">>, <<"c", "r", "a", "n", "e">>,
      <<"C", "r", "a", "t", "e">>, <<"z", "e", "b", "r", "a">>,
      <<"s", "l", "a", "t", "e", "s">> }

\* the strings given to make_guess: empty, white space only, too short, with a
\* digit, letters that are no word, and words of the list, one of them with
\* capitals and a leading space
RawGuesses ==
    { <<>>, <<" ">>, <<"c", "a", "t">>, <<"c", "r", "4", "n", "e">>,
      <<"a", "b", "c", "d", "e">>,
      <<"c", "r", "a", "n", "e">>, <<"c", "r", "a", "t", "e">>,
      <<"s", "t", "a", "r", "e">>, <<" ", "S", "L", "a", "t", "e">> }

\* no call of make_guess has returned
NoReturn == [success |-> FALSE, feedback |-> NoFeedback, error |-> "no call"]

\* WordleGame.__init__ stores the max_attempts it is given; nothing requires
\* it to be positive
InitGame ==
    /\ TaxiIdle
    /\ SolverIdle
    /\ max_attempts \in 0..MaxGuesses
    /\ current_game = NoGame
    /\ game_arg = <<>>
    /\ game_ret = NoReturn

\* WordleGame.start_new_game(target_word)
StartNewGame ==
    /\ \E target_word \in Targets :
          current_game' = GameState(target_word, max_attempts)
    /\ UNCHANGED <<max_attempts, game_arg, game_ret>>
    /\ UNCHANGED <<taxi_vars, solver_vars>>

\* WordleGame.make_guess(guess)
MakeGuess ==
    /\ \E guess \in RawGuesses :
          /\ game_arg' = guess
          /\ IF current_game = NoGame
             THEN /\ game_ret' = [success |-> FALSE, feedback |-> NoFeedback,
                                  error |-> "No active game"]
                  /\ UNCHANGED current_game
             ELSE IF current_game.is_over
             THEN /\ game_ret' = [success |-> FALSE, feedback |-> NoFeedback,
                                  error |-> "Game is already over"]
                  /\ UNCHANGED current_game
             ELSE IF ~validate(guess).is_valid
             THEN /\ game_ret' = [success |-> FALSE, feedback |-> NoFeedback,
                                  error |-> validate(guess).error_msg]
                  /\ UNCHANGED current_game
             ELSE LET game == game_make_guess(current_game, sanitize(guess))
                  IN  /\ current_game' = game
                      /\ game_ret' = [success  |-> TRUE,
                                      feedback |-> game.feedbacks[Len(game.feedbacks)],
                                      error    |-> ""]
    /\ UNCHANGED max_attempts
    /\ UNCHANGED <<taxi_vars, solver_vars>>

NextGame == StartNewGame \/ MakeGuess

SpecGame == InitGame /\ [][NextGame]_vars

----------------------------------------------------------------------------
(***************************************************************************)
(* Properties of the game engine                                           *)
(***************************************************************************)

\* the step is a call of make_guess that the game accepted: the guess was
\* appended to the guesses of the game in progress
AcceptedGuess ==
    /\ ~current_game.is_none
    /\ ~current_game'.is_none
    /\ current_game'.guesses # current_game.guesses
    /\ Len(current_game'.guesses) = Len(current_game.guesses) + 1

\* the last guess of a game
LastGuess(game) == game.guesses[Len(game.guesses)]

AllCorrect == [i \in 1..WordLen |-> CORRECT]

\* the effect C14 states of an accepted guess
WinsIffTarget ==
    AcceptedGuess =>
        /\ LastGuess(current_game') = current_game.target_word =>
              /\ game_ret'.success
              /\ game_ret'.feedback.feedback = AllCorrect
              /\ current_game'.is_won
              /\ current_game'.is_over
        /\ LastGuess(current_game') # current_game.target_word =>
              /\ game_ret'.feedback.feedback # AllCorrect
              /\ ~current_game'.is_won

\* C14 as stated: an accepted guess equal to the target word yields feedback that is all
\* CORRECT and sets both is_won and is_over; an accepted guess different from
\* the target never sets is_won.
C14_WonIffGuessIsTarget == [][WinsIffTarget]_vars

\* no guess of the game is its target word
AllWrong(game) == \A k \in DOMAIN game.guesses : game.guesses[k] # game.target_word

\* C15 as stated: in a game started with max_attempts = N, once N guesses
\* have been accepted and none of them equals the target the game has is_over
\* = true and is_won = false, and after fewer than N accepted wrong guesses it
\* is not over.
C15_LostAfterMaxAttempts ==
    (~current_game.is_none /\ AllWrong(current_game)) =>
        /\ current_game.max_attempts = max_attempts
        /\ Len(current_game.guesses) <= max_attempts
        /\ ~current_game.is_won
        /\ Len(current_game.guesses) = max_attempts => current_game.is_over
        /\ Len(current_game.guesses) < max_attempts => ~current_game.is_over

\* the string without its leading and trailing spaces, in lower case
Normalised(s) ==
    LET inked == {i \in DOMAIN s : s[i] # " "}
    IN  IF inked = {} THEN <<>>
        ELSE LET first == CHOOSE i \in inked : \A j \in inked : i <= j
                 last  == CHOOSE i \in inked : \A j \in inked : j <= i
             IN  [k \in 1..(last - first + 1) |->
                    IF s[first + k - 1] \in Upper
                    THEN lower_char(s[first + k - 1]) ELSE s[first + k - 1]]

\* the guess fails validation: it is empty, its length is not 5, it has a
\* character that is no letter, or it is not a word of the valid word list
FailsValidation(guess) ==
    \/ guess = <<>>
    \/ Len(Normalised(guess)) # WordLen
    \/ \E i \in DOMAIN Normalised(guess) : Normalised(guess)[i] \in {" ", "4"}
    \/ Normalised(guess) \notin valid_words

\* the call returned (False, None, a message that is not empty) and left the
\* game as it was
Rejected ==
    /\ ~game_ret'.success
    /\ game_ret'.feedback = NoFeedback
    /\ game_ret'.error # ""
    /\ current_game' = current_game

\* the call returned (True, a feedback, "") and recorded the guess: attempts
\* grew by exactly one, the guess and its feedback were appended
Recorded ==
    /\ game_ret'.success
    /\ ~game_ret'.feedback.is_none
    /\ game_ret'.error = ""
    /\ current_game'.attempts = current_game.attempts + 1
    /\ current_game'.guesses =
          Append(current_game.guesses, Normalised(game_arg'))
    /\ current_game'.feedbacks =
          Append(current_game.feedbacks, game_ret'.feedback)

\* C16 as stated: every call of WordleGame.make_guess with a guess that fails
\* validation returns (False, None, non-empty message) and leaves the game
\* unchanged, and every call with a valid guess returns (True, feedback, "")
\* and increments attempts by exactly one.
C16_ValidGuessAlwaysRecorded ==
    [][MakeGuess =>
        /\ FailsValidation(game_arg') => Rejected
        /\ ~FailsValidation(game_arg') => Recorded]_vars

\* C16 as amended: while a game is in progress (started and not over), a call
\* with a guess that fails validation returns (False, None, non-empty message)
\* and leaves the game unchanged, and a call with a valid guess returns (True,
\* feedback, "") and increments attempts by exactly one; without a game in
\* progress every call, whatever the guess, returns (False, None, non-empty
\* message) and changes nothing.
C16_ValidGuessRecordedInProgress ==
    [][MakeGuess =>
        IF ~current_game.is_none /\ ~current_game.is_over
        THEN /\ FailsValidation(game_arg') => Rejected
             /\ ~FailsValidation(game_arg') => Recorded
        ELSE Rejected]_vars

\* a game in progress that recorded a valid guess and then rejected a guess
\* that is not in the word list
C16_Witness ==
    /\ ~current_game.is_none
    /\ ~current_game.is_over
    /\ current_game.attempts = 1
    /\ Len(current_game.guesses) = 1
    /\ game_arg = <<"a", "b", "c", "d", "e">>
    /\ ~game_ret.success
    /\ game_ret.error = "is not a valid word"

----------------------------------------------------------------------------
(***************************************************************************)
(* The CSP solver: version_2/src/solvers/base_solver.py,                   *)
(* csp/constraints.py and csp/csp_solver.py.                               *)
(*                                                                         *)
(* A constraint is a record of its class (kind), its letter and its        *)
(* position, 0-based as in the program; a constraint of a class without a  *)
(* position has position -1.                                               *)
(*                                                                         *)
(* The members of LetterStatus by identity.  csp_solver.py and             *)
(* constraints.py import the feedback module relatively (...core.feedback, *)
(* src.core.feedback for the tests) while base_solver.py imports it as the *)
(* top-level module core.feedback.  The solver can be imported only where  *)
(* both names resolve, and there Python loads feedback.py twice, as two    *)
(* modules with two LetterStatus classes: a member of one class is not     *)
(* equal to the member of the other that has the same value.  A member is  *)
(* the pair of the module that defines its class and its value.            *)
(***************************************************************************)

\* the module base_solver.py imports
TopLevelModule == "core.feedback"

\* the module csp_solver.py and constraints.py import
PackageModule == "src.core.feedback"

\* the feedback module the caller of update_state imported
Modules == {TopLevelModule, PackageModule}

\* Feedback(guess, target) of the class defined by a module
FeedbackOf(module, guess, target) ==
    [is_none  |-> FALSE,
     guess    |-> guess,
     target   |-> target,
     feedback |-> [i \in 1..Len(generate_feedback(guess, target)) |->
                      <<module, generate_feedback(guess, target)[i]>>]]

\* the values of a list of members of LetterStatus
values(statuses) == [i \in DOMAIN statuses |-> statuses[i][2]]

PositionConstraint(position, letter) ==
    [kind |-> "Position", position |-> position, letter |-> letter]

ExcludePositionConstraint(position, letter) ==
    [kind |-> "ExcludePosition", position |-> position, letter |-> letter]

ContainsLetterConstraint(letter) ==
    [kind |-> "ContainsLetter", position |-> -1, letter |-> letter]

ExcludeLetterConstraint(letter) ==
    [kind |-> "ExcludeLetter", position |-> -1, letter |-> letter]

\* Constraint.is_satisfied of the four classes
constraint_is_satisfied(c, word) ==
    CASE c.kind = "Position"        -> word[c.position + 1] = c.letter
      [] c.kind = "ExcludePosition" -> word[c.position + 1] # c.letter
      [] c.kind = "ContainsLetter"  -> \E i \in DOMAIN word : word[i] = c.letter
      [] c.kind = "ExcludeLetter"   -> \A i \in DOMAIN word : word[i] # c.letter

\* ConstraintSet.is_satisfied
is_satisfied(cs, word) ==
    \A k \in DOMAIN cs : constraint_is_satisfied(cs[k], word)

\* the letters of the guess that are CORRECT or PRESENT somewhere, by the
\* LetterStatus constraints.py imports
placed_letters(guess, statuses) ==
    {guess[j] : j \in {x \in DOMAIN statuses :
                          /\ x <= Len(guess)
                          /\ statuses[x] \in {<<PackageModule, CORRECT>>,
                                              <<PackageModule, PRESENT>>}}}

\* ConstraintSet.add_from_feedback, from position i of zip(guess, feedback)
\* on; the statuses are compared with the LetterStatus constraints.py imports
RECURSIVE add_from(_, _, _, _)
add_from(cs, guess, statuses, i) ==
    IF i > Len(guess) \/ i > Len(statuses) THEN cs
    ELSE LET letter == guess[i]
             status == statuses[i]
             added  ==
                IF status = <<PackageModule, CORRECT>>
                THEN <<PositionConstraint(i - 1, letter)>>
                ELSE IF status = <<PackageModule, PRESENT>>
                THEN <<ContainsLetterConstraint(letter),
                       ExcludePositionConstraint(i - 1, letter)>>
                ELSE IF status = <<PackageModule, ABSENT>>
                        /\ letter \notin placed_letters(guess, statuses)
                THEN <<ExcludeLetterConstraint(letter)>>
                ELSE <<>>
         IN  add_from(cs \o added, guess, statuses, i + 1)

add_from_feedback(cs, guess, feedback) == add_from(cs, guess, feedback.feedback, 1)

\* BaseSolver._word_matches_feedback: the test feedback is of the class
\* imported at line 102
word_matches_feedback(word, guess, feedback) ==
    FeedbackOf(TopLevelModule, guess, word).feedback = feedback.feedback

\* BaseSolver._filter_words_by_feedback
filter_words_by_feedback(words, guess, feedback) ==
    {word \in words : word_matches_feedback(word, guess, feedback)}

\* the number of update_state calls followed between two resets
MaxUpdates == 2

\* the guesses given to update_state: words of the list, two of them with a
\* repeated letter, and a word that is not in the list
SolverGuesses ==
    { <<"s", "l", "a", "t", "e">>, <<"c", "r", "a", "n", "e">>,
      <<"a", "r", "i", "s", "e">>, <<"a", "l", "a", "r", "m">>,
      <<"a", "g", "r", "e", "e">>, <<"e", "e", "r", "i", "e">> }

\* the targets whose feedback is given to update_state
SolverTargets ==
    { <<"c", "r", "a", "n", "e">>, <<"s", "l", "a", "t", "e">>,
      <<"a", "l", "a", "r", "m">>, <<"a", "n", "g", "e", "l">>,
      <<"a", "g", "r", "e", "e">>, <<"e", "e", "r", "i", "e">> }

\* BaseSolver.__init__ and CSPSolver.__init__
InitSolver ==
    /\ TaxiIdle
    /\ GameIdle
    /\ possible_words = common_words
    /\ guess_history = <<>>
    /\ feedback_history = <<>>
    /\ constraints = <<>>
    /\ solver_call = [op |-> "__init__", before |-> 0]

\* CSPSolver.update_state(guess, feedback), feedback a Feedback of either
\* module
UpdateState ==
    /\ Len(guess_history) < MaxUpdates
    /\ \E guess \in SolverGuesses, target \in SolverTargets, module \in Modules :
          LET feedback == FeedbackOf(module, guess, target)
          IN  /\ guess_history' = Append(guess_history, guess)
              /\ feedback_history' = Append(feedback_history, feedback)
              /\ constraints' = add_from_feedback(constraints, guess, feedback)
              /\ possible_words' =
                    filter_words_by_feedback(possible_words, guess, feedback)
    /\ solver_call' = [op |-> "update_state", before |-> Len(guess_history)]
    /\ UNCHANGED <<taxi_vars, game_vars>>

\* mutant: reset keeps the constraint set (BaseSolver.reset alone)
reset_constraints_kept(cs) == cs

\* self.constraints = ConstraintSet()
reset_constraints(cs) == <<>>

\* CSPSolver.reset()
Reset ==
    /\ possible_words' = common_words
    /\ guess_history' = <<>>
    /\ feedback_history' = <<>>
    /\ constraints' = reset_constraints(constraints)
    /\ solver_call' = [op |-> "reset", before |-> Len(guess_history)]
    /\ UNCHANGED <<taxi_vars, game_vars>>

NextSolver == UpdateState \/ Reset

SpecSolver == InitSolver /\ [][NextSolver]_vars

----------------------------------------------------------------------------
(***************************************************************************)
(* Properties of the CSP solver                                            *)
(***************************************************************************)

\* the Wordle score of a guess against a word, position by position: a letter
\* in its place is CORRECT; a letter out of place is PRESENT while the word
\* has more out-of-place copies of it than the guess has had so far
Score(guess, word) ==
    [i \in DOMAIN guess |->
        IF guess[i] = word[i] THEN CORRECT
        ELSE IF Cardinality({j \in 1..(i - 1) :
                                guess[j] = guess[i] /\ guess[j] # word[j]})
                  < Cardinality({k \in DOMAIN word :
                                    word[k] = guess[i] /\ guess[k] # word[k]})
             THEN PRESENT
             ELSE ABSENT]

\* the step is a call of update_state
UpdateStep == Len(guess_history') = Len(guess_history) + 1

\* the effect C17 states of update_state(guess, feedback)
FiltersExactly ==
    UpdateStep =>
        LET guess    == guess_history'[Len(guess_history')]
            statuses == values(feedback_history'[Len(feedback_history')].feedback)
        IN  /\ possible_words' =
                  {w \in possible_words : Score(guess, w) = statuses}
            /\ Cardinality(possible_words') <= Cardinality(possible_words)
            /\ (guess \in possible_words /\ statuses # AllCorrect) =>
                  Cardinality(possible_words') < Cardinality(possible_words)

\* C17 as stated: update_state(guess, feedback) replaces possible_words by exactly the
\* subset of its previous value whose words w satisfy Feedback(guess, w) ==
\* feedback, so the number of possible words never grows, and it strictly
\* decreases whenever the guess was itself a possible word and the feedback is
\* not all-CORRECT.
C17_UpdateFiltersExactly == [][FiltersExactly]_vars

\* C18: after any sequence of update_state calls, reset returns the solver to
\* its freshly constructed state: guess_history and feedback_history are
\* empty, possible_words is again the full set of common words, and the
\* constraint set is empty.
C18_ResetRestoresFreshState ==
    solver_call.op = "reset" =>
        /\ guess_history = <<>>
        /\ feedback_history = <<>>
        /\ possible_words = common_words
        /\ Cardinality(possible_words) = Cardinality(get_default_words)
        /\ constraints = <<>>
        /\ \A w \in common_words : is_satisfied(constraints, w)

\* reset has been called after two updates
C18_Witness ==
    /\ solver_call.op = "reset"
    /\ solver_call.before = 2

----------------------------------------------------------------------------
(***************************************************************************)
(* The instances on which the completions of a node are enumerated         *)
(***************************************************************************)

\* the scenarios and the enumerated instances with fewer than MaxTaxis taxis
SearchInputs ==
    ScenarioInputs \cup {inp \in GenericInputs : Len(inp.trips) < MaxTaxis}

InitSearch ==
    /\ Init
    /\ [num_nodes |-> num_nodes, edges |-> edges, trips |-> trips,
        wait_penalty |-> wait_penalty, speed_kmh |-> speed_kmh] \in SearchInputs

SpecSearch == InitSearch /\ [][Next]_vars

----------------------------------------------------------------------------
(***************************************************************************)
(* Dominance pruning                                                       *)
(***************************************************************************)

\* the values of g that the dictionary s records for a key
RecordedG(s, key) == {s[k][2] : k \in {x \in DOMAIN s : s[x][1] = key}}

\* the keys of the dictionary s
RecordedKeys(s) == {s[k][1] : k \in DOMAIN s}

\* one pop of solve, told by the node that is at the top of the heap before it
PopStep ==
    (pc = "loop" /\ open_heap # {} /\ open_heap' # open_heap) =>
        LET node        == heap_top(open_heap)
            taxi_states == deserialize_states(node.ser_states)
            key         == get_canonical_key(taxi_states)
            covered     == \E r \in RecordedG(seen, key) : r <= node.g
        IN  /\ all_done(taxi_states) =>
                /\ pc' = "returned"
                /\ solution'.found
                /\ solution'.g = node.g
                /\ solution'.taxi_states = taxi_states
                /\ seen' = seen
            /\ (~all_done(taxi_states) /\ covered) =>
                /\ open_heap' = open_heap \ {node}
                /\ counter' = counter
                /\ seen' = seen
                /\ solution' = None
            /\ (~all_done(taxi_states) /\ ~covered) =>
                /\ RecordedG(seen', key) = {node.g}
                /\ counter' = counter + Len(moves(taxi_states))
                /\ node \notin open_heap'
                /\ open_heap \ {node} \subseteq open_heap'
                /\ Cardinality(open_heap' \ open_heap) = Len(moves(taxi_states))
                /\ solution' = None
            /\ \A k \in RecordedKeys(seen) :
                 /\ Cardinality(RecordedG(seen', k)) = 1
                 /\ \A r \in RecordedG(seen, k) :
                       \A r2 \in RecordedG(seen', k) : r2 <= r
                 /\ RecordedG(seen', k) # RecordedG(seen, k) => k = key

\* C21: a popped node that is not all-done is discarded, without any push,
\* exactly when a g recorded for its canonical key is <= its own g; otherwise
\* its g is recorded for the key and it is expanded.  The g recorded for a key
\* never grows and changes only to the g of the node being expanded (which is
\* below it), and an all-done node is returned as the solution whatever is
\* recorded.
C21_DiscardIffDominated == [][PopStep]_vars

\* a search that has discarded a node and has recorded the keys of others
C21_Witness ==
    /\ discards > 0
    /\ Len(seen) > 1
    /\ pc = "loop"

----------------------------------------------------------------------------
(***************************************************************************)
(* Expansion                                                               *)
(***************************************************************************)

\* a step of solve that expands the node at the top of the heap
ExpandStep ==
    /\ pc = "loop"
    /\ open_heap # {}
    /\ counter' > counter

\* the node an expansion pops, deserialized
Parent ==
    LET node == heap_top(open_heap)
    IN  [g           |-> node.g,
         f           |-> node.f,
         tuple       |-> node,
         taxi_states |-> deserialize_states(node.ser_states),
         schedule    |-> deserialize_schedule(node.ser_schedule)]

\* the tuples an expansion pushes, deserialized
Successors ==
    { [g           |-> n.g,
       f           |-> n.f,
       counter     |-> n.counter,
       taxi_states |-> deserialize_states(n.ser_states),
       schedule    |-> deserialize_schedule(n.ser_schedule)] :
         n \in {x \in open_heap' : x.counter >= counter} }

\* the agent a successor moved: the owner of the last entry of its schedule
Mover(s) == s.schedule[Len(s.schedule)].taxi + 1

\* the entry a successor added
NewEntry(s) == s.schedule[Len(s.schedule)]

CopiesThenAppends ==
    ExpandStep =>
        /\ Successors # {}
        /\ \A s \in Successors :
              /\ Len(s.schedule) = Len(Parent.schedule) + 1
              /\ SubSeq(s.schedule, 1, Len(Parent.schedule)) = Parent.schedule
              /\ Mover(s) \in DOMAIN Parent.taxi_states
              /\ DOMAIN s.taxi_states = DOMAIN Parent.taxi_states
              /\ \A i \in DOMAIN s.taxi_states :
                    i # Mover(s) => s.taxi_states[i] = Parent.taxi_states[i]
              /\ s.taxi_states[Mover(s)] # Parent.taxi_states[Mover(s)]
        /\ open_heap' \cap open_heap = open_heap \ {Parent.tuple}
        /\ \A n \in open_heap' \ open_heap : n.counter >= counter

\* C22: every tuple an expansion pushes has the parent's schedule followed by
\* exactly one new entry, and taxi states that differ from the parent's in the
\* moved taxi's state and in no other; every other tuple of the frontier is in
\* the frontier unchanged after the expansion.
C22_SuccessorsCopyThenAppend == [][CopiesThenAppends]_vars

\* a frontier that holds two successors of one expansion, which moved
\* different taxis over a parent schedule that is not empty, beside an older
\* tuple
C22_Witness ==
    \E a, b, c \in Nodes :
        /\ Len(a.schedule) >= 2
        /\ Len(b.schedule) = Len(a.schedule)
        /\ SubSeq(a.schedule, 1, Len(a.schedule) - 1)
              = SubSeq(b.schedule, 1, Len(b.schedule) - 1)
        /\ a.schedule[Len(a.schedule)].taxi # b.schedule[Len(b.schedule)].taxi
        /\ Len(c.schedule) < Len(a.schedule)

\* the end of the entry of taxi number t (0-based) that precedes entry k of the
\* schedule; 0, the time every taxi is available at first, when there is none
PrevEnd(schedule, k, t) ==
    LET before == {j \in 1..(k - 1) : schedule[j].taxi = t}
    IN  IF before = {} THEN 0
        ELSE schedule[CHOOSE j \in before : \A x \in before : x <= j].end

\* the number of traversals of taxi number t that start after the taxi was
\* available
DelayedTraversals(schedule, t) ==
    Cardinality({k \in DOMAIN schedule :
                    /\ schedule[k].taxi = t
                    /\ schedule[k].start > PrevEnd(schedule, k, t)})

WaitEventsCountDelays(taxi_states, schedule) ==
    \A i \in DOMAIN taxi_states :
        Len(taxi_states[i].wait_events) = DelayedTraversals(schedule, i - 1)

WaitEventIffDelayed ==
    /\ (pc = "init" /\ pc' = "loop") =>
          \A n \in open_heap' :
              WaitEventsCountDelays(deserialize_states(n.ser_states),
                                    deserialize_schedule(n.ser_schedule))
    /\ ExpandStep =>
          \A s \in Successors :
              LET before == Parent.taxi_states[Mover(s)]
                  after  == s.taxi_states[Mover(s)]
              IN  /\ NewEntry(s).start > before.available_at =>
                        after.wait_events =
                            Append(before.wait_events,
                                   [node   |-> before.pos,
                                    from   |-> before.available_at,
                                    to     |-> NewEntry(s).start,
                                    reason |-> "capacity"])
                  /\ NewEntry(s).start <= before.available_at =>
                        after.wait_events = before.wait_events
                  /\ WaitEventsCountDelays(s.taxi_states, s.schedule)

\* C23: the moved taxi of a successor gains exactly the wait event {node = its
\* position before the move, from = its previous available_at, to = the
\* resolved start, reason = capacity} when the resolved start is after the
\* proposed start, and its wait events are the parent's otherwise; in the root
\* and in every successor each taxi has as many wait events as traversals that
\* start after the taxi was available.
C23_WaitEventIffDelayed == [][WaitEventIffDelayed]_vars

\* a node in which a taxi has driven one edge without delay and then waited
\* for the next
C23_Witness ==
    \E n \in Nodes :
        \E i \in DOMAIN n.taxi_states :
            /\ Len(n.taxi_states[i].route) = 3
            /\ Len(n.taxi_states[i].wait_events) = 1
            /\ n.taxi_states[i].wait_events[1].from > 0
            /\ n.taxi_states[i].wait_events[1].to
                  > n.taxi_states[i].wait_events[1].from

----------------------------------------------------------------------------
(***************************************************************************)
(* The table of shortest times                                             *)
(***************************************************************************)

\* the lengths in km of the edges that join u and v
EdgeKms(u, v) ==
    { edges[k][3] :
        k \in { x \in DOMAIN edges : {edges[x][1], edges[x][2]} = {u, v} } }

\* the sequences of distinct nodes from u to v whose consecutive nodes are
\* joined by an edge
SimplePaths(u, v) ==
    { p \in UNION {[1..n -> 1..num_nodes] : n \in 1..num_nodes} :
        /\ p[1] = u
        /\ p[Len(p)] = v
        /\ \A i, j \in DOMAIN p : i # j => p[i] # p[j]
        /\ \A i \in 1..(Len(p) - 1) : EdgeKms(p[i], p[i + 1]) # {} }

\* the least total length of the edges of a path
RECURSIVE PathKm(_)
PathKm(p) ==
    IF Len(p) <= 1 THEN 0
    ELSE MinOf(EdgeKms(p[1], p[2])) + PathKm(Tail(p))

\* the minimum total edge distance over the paths from u to v, times the
\* minutes per km; infinity when there is no path
ShortestTime(u, v) ==
    IF SimplePaths(u, v) = {} THEN Inf
    ELSE MinOf({PathKm(p) : p \in SimplePaths(u, v)}) * minutes_per_km(speed_kmh)

\* C24: the table all_times computed at construction, as solve finds it, has
\* all_times[u][v] = the minimum total edge distance over the paths from u to
\* v times 60 / speed, infinity when there is no path and 0 when u = v; it is
\* symmetric and all_times[u][w] <= all_times[u][v] + all_times[v][w].
C24_AllTimesAreShortest ==
    pc = "init" =>
        /\ DOMAIN all_times = 1..num_nodes
        /\ \A u \in 1..num_nodes :
              /\ DOMAIN all_times[u] = 1..num_nodes
              /\ all_times[u][u] = 0
              /\ \A v \in 1..num_nodes :
                    /\ all_times[u][v] = ShortestTime(u, v)
                    /\ all_times[u][v] = all_times[v][u]
                    /\ \A w \in 1..num_nodes :
                          all_times[u][w]
                              <= Plus(all_times[u][v], all_times[v][w])

\* a triangle in which the road through node 2 is shorter than the direct
\* edge between 1 and 3
C24_Witness ==
    /\ pc = "init"
    /\ EdgeKms(1, 3) # {}
    /\ all_times[1][3] < MinOf(EdgeKms(1, 3)) * minutes_per_km(speed_kmh)
    /\ all_times[1][3] = all_times[1][2] + all_times[2][3]

AvailableAtAdvances ==
    ExpandStep =>
        \A s \in Successors :
            LET before == Parent.taxi_states[Mover(s)]
                after  == s.taxi_states[Mover(s)]
                e      == NewEntry(s)
            IN  /\ e.end - e.start \in EdgeTimes(before.pos, after.pos)
                /\ e.start >= before.available_at
                /\ after.available_at = e.start + (e.end - e.start)
                /\ after.available_at >= before.available_at
                /\ \A i \in DOMAIN s.taxi_states :
                      i # Mover(s) =>
                          s.taxi_states[i].available_at
                              = Parent.taxi_states[i].available_at

\* C25: every move sets the moved taxi's available_at to the resolved start
\* plus the travel time of an edge between its old and its new position, which
\* is not below its previous available_at, and leaves the available_at of the
\* other taxis as it was; so along a branch no available_at ever decreases.
C25_AvailableAtNeverDecreases == [][AvailableAtAdvances]_vars

\* a node in which a taxi has made two moves and is available later than the
\* travel time of its route, while another taxi has not moved yet
C25_Witness ==
    \E n \in Nodes :
        \E i, j \in DOMAIN n.taxi_states :
            /\ Len(n.taxi_states[i].route) = 3
            /\ n.taxi_states[i].available_at > RouteTime(n.taxi_states[i].route)
            /\ Len(n.taxi_states[j].route) = 1
            /\ n.taxi_states[j].available_at = 0
            /\ ~n.taxi_states[j].done

----------------------------------------------------------------------------
(***************************************************************************)
(* Schedules and routes                                                    *)
(***************************************************************************)

\* the entries of the schedule owned by taxi i, in schedule order
OwnEntries(schedule, i) ==
    LET Owned(e) == e.taxi = i - 1
    IN  SelectSeq(schedule, Owned)

\* the unordered pair of nodes u, v with the smaller node first
CanonicalPair(u, v) ==
    <<CHOOSE x \in {u, v} : \A y \in {u, v} : x <= y,
      CHOOSE x \in {u, v} : \A y \in {u, v} : x >= y>>

RECURSIVE RouteSteps(_, _)
RouteSteps(taxi_states, i) ==
    IF i > Len(taxi_states) THEN 0
    ELSE (Len(taxi_states[i].route) - 1) + RouteSteps(taxi_states, i + 1)

ScheduleMatchesRoutes(taxi_states, schedule) ==
    /\ \A i \in DOMAIN taxi_states :
          LET own   == OwnEntries(schedule, i)
              route == taxi_states[i].route
          IN  /\ Len(own) = Len(route) - 1
              /\ \A k \in DOMAIN own :
                    /\ own[k].edge = CanonicalPair(route[k], route[k + 1])
                    /\ own[k].start >= (IF k = 1 THEN 0 ELSE own[k - 1].end)
              /\ own # <<>> => own[Len(own)].end = taxi_states[i].available_at
    /\ Len(schedule) = RouteSteps(taxi_states, 1)

\* C26: in every node of the frontier and in the returned solution, the
\* schedule entries owned by taxi i, in schedule order, are the consecutive
\* edges of taxi i's route, one entry per step, keyed by the unordered pair of
\* the step's nodes; each starts no earlier than the taxi's previous entry
\* ends, the last ends at the taxi's available_at, and the schedule has as
\* many entries as the routes have steps.
C26_ScheduleMatchesRoutes ==
    /\ \A n \in Nodes : ScheduleMatchesRoutes(n.taxi_states, n.schedule)
    /\ ScheduleMatchesRoutes(solution.taxi_states, solution.schedule)

\* a node in which a taxi has driven an edge from its larger to its smaller
\* node and then another edge, between the entries of another taxi
C26_Witness ==
    \E n \in Nodes :
        \E i \in DOMAIN n.taxi_states :
            LET own == OwnEntries(n.schedule, i)
            IN  /\ Len(own) = 2
                /\ n.taxi_states[i].route[1] > n.taxi_states[i].route[2]
                /\ Len(n.schedule) >= 4
                /\ n.schedule[1].taxi # n.schedule[2].taxi

----------------------------------------------------------------------------
(***************************************************************************)
(* The order of the pops                                                   *)
(***************************************************************************)

\* the smallest f of a frontier
MinF(heap) == MinOf({n.f : n \in heap})

\* the f of the node a step pops
PoppedF == MinF(open_heap)

\* the f with which the root is pushed
RootF == Plus(0, admissible_sum_heuristic(initialize_taxi_states(trips)))

\* the shortest time a taxi still has to drive
ShortestLeft(t) == IF t.done THEN 0 ELSE all_times_get(t.pos, t.dest)

PopsInOrderOfF ==
    (pc = "loop" /\ open_heap # {} /\ open_heap' # open_heap) =>
        /\ \A n \in open_heap' \ open_heap : n.f >= PoppedF
        /\ \A n \in open_heap' \ open_heap : n.f >= n.g
        /\ heap_top(open_heap).f = PoppedF
        /\ open_heap' # {} => MinF(open_heap') >= PoppedF
        /\ ExpandStep =>
              \A s \in Successors :
                  LET before == Parent.taxi_states[Mover(s)]
                      after  == s.taxi_states[Mover(s)]
                  IN  Plus(s.g - Parent.g, ShortestLeft(after))
                          >= ShortestLeft(before)

\* C27: the node solve pops has the least f of the frontier, every tuple an
\* expansion pushes has an f that is not below the f of the node expanded, and
\* so the f of the next pop is not below the f of this pop: the f values of
\* the popped nodes never decrease over the run.  The cost a move adds is at
\* least the drop in the moved taxi's shortest remaining time.
C27_PoppedFNeverDecreases == [][PopsInOrderOfF]_vars

\* several nodes have been expanded and the next pop has an f above the f of
\* the root, because a taxi had to wait
C27_Witness ==
    /\ pc = "loop"
    /\ Len(seen) >= 2
    /\ open_heap # {}
    /\ MinF(open_heap) > RootF
    /\ MinF(open_heap) < Inf

----------------------------------------------------------------------------
(***************************************************************************)
(* Termination                                                             *)
(***************************************************************************)

\* solve is a sequential loop: as long as it has an iteration to run, it runs
\* it
SpecLive == Init /\ [][Next]_vars /\ WF_vars(Next)

\* positive edge lengths, a positive wait penalty, and every trip between two
\* nodes of the graph that a path joins
Solvable ==
    /\ \A k \in DOMAIN edges : edges[k][3] > 0
    /\ wait_penalty > 0
    /\ \A i \in DOMAIN trips :
          /\ trips[i][1] \in 1..num_nodes
          /\ trips[i][2] \in 1..num_nodes
          /\ SimplePaths(trips[i][1], trips[i][2]) # {}

\* the model follows solve no further
CutOff == pc = "loop" /\ counter > MaxCounter

\* C28: for an instance with positive edge lengths, a positive wait penalty
\* and every destination reachable from its origin, solve eventually returns a
\* Solution, or is still searching when its insertion counter has passed
\* MaxCounter; with one or two taxis it returns a Solution before that.  It
\* never returns None.
C28_SolvableEventuallyReturns ==
    /\ <>(~Solvable \/ Returned \/ CutOff)
    /\ <>(~(Solvable /\ Len(trips) <= 2) \/ Returned)

\* a Solution returned for three taxis, one of which waited
C28_Witness ==
    /\ Solvable
    /\ Returned
    /\ Len(trips) = 3
    /\ \E i \in DOMAIN solution.taxi_states :
          solution.taxi_states[i].wait_events # <<>>

----------------------------------------------------------------------------
(***************************************************************************)
(* The bound on the attempts of a game                                     *)
(***************************************************************************)

\* attempts <= max_attempts and is_won implies is_over
AttemptsBounded(game) ==
    ~game.is_none =>
        /\ game.attempts <= game.max_attempts
        /\ game.is_won => game.is_over

\* a call of make_guess on a game that is over is refused and changes nothing
OverIsFinal ==
    (~current_game.is_none /\ current_game.is_over /\ game_ret' # game_ret) =>
        /\ game_ret' = [success |-> FALSE, feedback |-> NoFeedback,
                        error |-> "Game is already over"]
        /\ current_game' = current_game

\* C29 as stated: in every reachable state of a WordleGame attempts <=
\* max_attempts and is_won implies is_over, and a make_guess on a game that is
\* over returns (False, None, "Game is already over") and leaves attempts,
\* guesses, feedbacks, is_won and is_over unchanged.
C29_AttemptsBoundedOverFinal ==
    [][AttemptsBounded(current_game) /\ AttemptsBounded(current_game')
          /\ OverIsFinal]_vars

----------------------------------------------------------------------------
(***************************************************************************)
(* The solver against one target                                           *)
(***************************************************************************)

\* CSPSolver.get_next_guess: the return statement it reaches and the words it
\* found valid; which of several valid words it returns is not modelled
get_next_guess_path(history, words, cs) ==
    IF history = <<>> THEN [path |-> "first", valid_words |-> {}]
    ELSE LET valid == {w \in words : is_satisfied(cs, w)}
         IN  IF valid = {} THEN [path |-> "fallback", valid_words |-> valid]
             ELSE IF Cardinality(valid) = 1
                  THEN [path |-> "single", valid_words |-> valid]
                  ELSE [path |-> "best", valid_words |-> valid]

\* the words of the initial possible_words that, as the target, give every
\* feedback the solver has been told, each a Feedback of one of the modules
TargetsOfHistory ==
    {t \in common_words :
        \A k \in DOMAIN guess_history :
            \E module \in Modules :
                feedback_history[k] = FeedbackOf(module, guess_history[k], t)}

\* C30 as stated: when every update_state call so far was update_state(guess,
\* Feedback(guess, t)) for one word t of the initial possible_words, t is
\* still in possible_words and satisfies every accumulated constraint, so
\* get_next_guess does not reach its no-valid-words fallback.
C30_TargetStaysPossible ==
    \A t \in TargetsOfHistory :
        /\ t \in possible_words
        /\ is_satisfied(constraints, t)
        /\ get_next_guess_path(guess_history, possible_words,
                               constraints).path # "fallback"

====
